---- MODULE Spec2Model ----
(***************************************************************************)
(* CharacterDB persistence layer (lib/database.ts): the six tables of the  *)
(* SQLite schema and the operations of the Entity Store, Query/Filter      *)
(* Engine and Import/Export Coordinator.                                   *)
(*                                                                         *)
(* A JavaScript or SQL value is a tagged tuple, so that `typeof`, `||`,    *)
(* `=== ""` and NULL handling are computed as the code computes them.      *)
(* A string is a sequence of one-character strings.                        *)
(*                                                                         *)
(* Of the 31 columns of `characters` the model keeps name, role (one of    *)
(* the 27 optional text columns, all written by the same loop and the same *)
(* `|| null` expression), personality_traits (one of the three JSON        *)
(* columns), is_favorite, is_archived and updated_at.                      *)
(***************************************************************************)
EXTENDS Integers, Sequences, FiniteSets, TLC

VARIABLES
  tables,   \* the database: one field per table, plus sqlite_sequence
  now,      \* CURRENT_TIMESTAMP
  call,     \* the last call of the API: [op, args, ret]
  pre,      \* the tables as they were when that call started
  db,       \* the module's `let db`: null, or the handle Database.load gave
  loads,    \* the calls of Database.load made so far
  inits,    \* the runs of initializeSchema started so far
  getDbCalls, \* each caller of getDb: where it stands, and what it holds
  store,    \* the zustand state: the cached lists, the selection, the filter
  toggleCalls, \* the calls of toggleFavorite in flight, and the refreshes done
  modal,    \* the CharacterModal component: its state, timer and saves
  refreshCalls \* the runs of refreshCharacters: the filter each one read

\* The state of the module outside the database file.
connection == <<db, loads, inits, getDbCalls>>

\* The state of the user interface outside the store.
frontend == <<toggleCalls, modal, refreshCalls>>

vars == <<tables, now, call, pre, connection, store, frontend>>

----------------------------------------------------------------------------
(* Bounds of the model. *)

MaxCharacters == 2     \* character ids ever allocated
MaxProjects == 2       \* project ids ever allocated
MaxTags == 2           \* tag ids ever allocated
MaxRelationships == 2  \* relationship ids ever allocated
MaxClock == 1          \* values taken by CURRENT_TIMESTAMP: 0..MaxClock
MaxTagIds == 2         \* length of the tagIds argument
MaxBatch == 2          \* records of one kind in an import document
MaxCallers == 3        \* callers of getDb in flight
MaxSelectable == 6
MaxEdits == 3           \* calls of handleChange
MaxOpens == 2           \* times the modal is opened
MaxSwitchEdits == 2     \* calls of handleChange around a close or a switch
MaxRefreshes == 3       \* runs of refreshCharacters
MaxTogglers == 3       \* calls of toggleFavorite in flight
MaxPowers == 3         \* entries of a stored powers list

----------------------------------------------------------------------------
(* JavaScript / SQL values. *)

Undefined == <<"undefined">>
Null == <<"null">>
Str(s) == <<"string", s>>
Bool(b) == <<"boolean", b>>
Num(n) == <<"number", n>>
Arr(l) == <<"array", l>>
Obj(r) == <<"object", r>>

\* JS truthiness, as used by `x || d`, `x ? a : b` and `!x`.
Truthy(v) ==
  CASE v[1] = "undefined" -> FALSE
    [] v[1] = "null" -> FALSE
    [] v[1] = "string" -> v[2] # <<>>
    [] v[1] = "boolean" -> v[2]
    [] v[1] = "number" -> v[2] # 0
    [] OTHER -> TRUE

\* a || d
OrElse(v, d) == IF Truthy(v) THEN v ELSE d

\* obj[k] of a Partial<...> object: undefined when the key is absent.
Get(obj, k) == IF k \in DOMAIN obj THEN obj[k] ELSE Undefined

\* The object with key k dropped when its value is the marker Absent.
Absent == <<"absent">>

MkObject(opt) == [k \in {x \in DOMAIN opt : opt[x] # Absent} |-> opt[k]]

----------------------------------------------------------------------------
(* Strings. *)

UpperCase == <<"A", "B", "C", "D", "E", "F", "G", "H", "I", "J", "K", "L", "M",
               "N", "O", "P", "Q", "R", "S", "T", "U", "V", "W", "X", "Y", "Z">>
LowerCase == <<"a", "b", "c", "d", "e", "f", "g", "h", "i", "j", "k", "l", "m",
               "n", "o", "p", "q", "r", "s", "t", "u", "v", "w", "x", "y", "z">>

\* The lower-case letter of each upper-case letter.
LowerOf ==
  [c \in {UpperCase[i] : i \in DOMAIN UpperCase} |->
     LowerCase[CHOOSE i \in DOMAIN UpperCase : UpperCase[i] = c]]

LowerChar(c) == IF c \in DOMAIN LowerOf THEN LowerOf[c] ELSE c

\* String.prototype.toLowerCase
\* toLowerCase when it leaves every letter as it is.
KeepCase(s) == s

toLowerCase(s) == [i \in DOMAIN s |-> LowerChar(s[i])]

\* SQLite's LIKE: % matches any run, _ any one character, letters match
\* whatever their case.
RECURSIVE LikeMatch(_, _)
LikeMatch(p, s) ==
  IF p = <<>> THEN s = <<>>
  ELSE IF Head(p) = "%"
    THEN LikeMatch(Tail(p), s) \/ (s # <<>> /\ LikeMatch(p, Tail(s)))
    ELSE /\ s # <<>>
         /\ (Head(p) = "_" \/ LowerChar(Head(p)) = LowerChar(Head(s)))
         /\ LikeMatch(Tail(p), Tail(s))

\* column LIKE pattern, in a WHERE or CASE WHEN: NULL LIKE x is not true.
SqlLike(col, pattern) == col[1] = "string" /\ LikeMatch(pattern, col[2])

\* The items of an array of strings as JSON.stringify writes them.
RECURSIVE JoinQuoted(_)
JoinQuoted(l) ==
  IF l = <<>> THEN <<>>
  ELSE <<"\"">> \o Head(l)[2] \o <<"\"">>
       \o (IF Tail(l) = <<>> THEN <<>> ELSE <<",">> \o JoinQuoted(Tail(l)))

\* JSON.stringify of an array of strings (none of which needs escaping).
JSONstringify(v) == <<"[">> \o JoinQuoted(v[2]) \o <<"]">>

\* What JSON.parse throws.
SyntaxError == <<"SyntaxError">>

\* The index of the first " of s, or 0.
FirstQuote(s) ==
  IF \E i \in DOMAIN s : s[i] = "\""
  THEN CHOOSE i \in DOMAIN s : s[i] = "\"" /\ \A j \in 1..(i - 1) : s[j] # "\""
  ELSE 0

Digits == <<"0", "1", "2", "3", "4", "5", "6", "7", "8", "9">>

DigitValue(c) == (CHOOSE i \in DOMAIN Digits : Digits[i] = c) - 1

IsDigit(c) == \E i \in DOMAIN Digits : Digits[i] = c

\* The number written by a run of digits.
RECURSIVE DigitsValue(_)
DigitsValue(s) ==
  IF s = <<>> THEN 0
  ELSE 10 * DigitsValue(SubSeq(s, 1, Len(s) - 1)) + DigitValue(s[Len(s)])

\* s starts with the characters of w.
StartsWith(s, w) == Len(s) >= Len(w) /\ SubSeq(s, 1, Len(w)) = w

\* The outcome of parsing a prefix of a text: the value and what follows it.
Parsed(value, rest) == [ok |-> TRUE, value |-> value, rest |-> rest]

NotParsed == [ok |-> FALSE, value |-> Null, rest |-> <<>>]

\* A string literal at the start of s (texts without escapes).
ParseString(s) ==
  IF s = <<>> \/ Head(s) # "\"" THEN NotParsed
  ELSE LET q == FirstQuote(Tail(s))
       IN IF q = 0 THEN NotParsed
          ELSE Parsed(Str(SubSeq(s, 2, q)), SubSeq(s, q + 2, Len(s)))

\* obj with key k set to v.
WithMember(obj, k, v) ==
  [x \in DOMAIN obj \cup {k} |-> IF x = k THEN v ELSE obj[x]]

\* A JSON value at the start of s (texts without white space): a string, a
\* number of digits, true, false, null, an array or an object.
RECURSIVE ParseValue(_), ParseElements(_, _), ParseMembers(_, _)
ParseValue(s) ==
  IF s = <<>> THEN NotParsed
  ELSE IF Head(s) = "\"" THEN ParseString(s)
  ELSE IF IsDigit(Head(s))
  THEN LET n == CHOOSE k \in 1..Len(s) :
                  /\ \A i \in 1..k : IsDigit(s[i])
                  /\ k = Len(s) \/ ~IsDigit(s[k + 1])
       IN IF n > 1 /\ Head(s) = "0" THEN NotParsed
          ELSE Parsed(Num(DigitsValue(SubSeq(s, 1, n))), SubSeq(s, n + 1, Len(s)))
  ELSE IF StartsWith(s, <<"t", "r", "u", "e">>)
  THEN Parsed(Bool(TRUE), SubSeq(s, 5, Len(s)))
  ELSE IF StartsWith(s, <<"f", "a", "l", "s", "e">>)
  THEN Parsed(Bool(FALSE), SubSeq(s, 6, Len(s)))
  ELSE IF StartsWith(s, <<"n", "u", "l", "l">>)
  THEN Parsed(Null, SubSeq(s, 5, Len(s)))
  ELSE IF StartsWith(s, <<"[", "]">>)
  THEN Parsed(Arr(<<>>), SubSeq(s, 3, Len(s)))
  ELSE IF Head(s) = "[" THEN ParseElements(Tail(s), <<>>)
  ELSE IF StartsWith(s, <<"{", "}">>)
  THEN Parsed(Obj(<<>>), SubSeq(s, 3, Len(s)))
  ELSE IF Head(s) = "{" THEN ParseMembers(Tail(s), <<>>)
  ELSE NotParsed

\* The elements of an array after its [ or a comma; acc: those before.
ParseElements(s, acc) ==
  LET v == ParseValue(s)
  IN IF ~v.ok \/ v.rest = <<>> THEN NotParsed
     ELSE IF Head(v.rest) = "," THEN ParseElements(Tail(v.rest), Append(acc, v.value))
     ELSE IF Head(v.rest) = "]" THEN Parsed(Arr(Append(acc, v.value)), Tail(v.rest))
     ELSE NotParsed

\* The members of an object after its { or a comma; acc: those before.
ParseMembers(s, acc) ==
  LET k == ParseString(s)
  IN IF ~k.ok \/ k.rest = <<>> \/ Head(k.rest) # ":" THEN NotParsed
     ELSE LET v == ParseValue(Tail(k.rest))
              members == WithMember(acc, k.value[2], v.value)
          IN IF ~v.ok \/ v.rest = <<>> THEN NotParsed
             ELSE IF Head(v.rest) = "," THEN ParseMembers(Tail(v.rest), members)
             ELSE IF Head(v.rest) = "}" THEN Parsed(Obj(members), Tail(v.rest))
             ELSE NotParsed

\* JSON.parse(s): the value of the text, or SyntaxError.
JSONparse(s) ==
  LET v == ParseValue(s)
  IN IF v.ok /\ v.rest = <<>> THEN v.value ELSE SyntaxError

----------------------------------------------------------------------------
(* The schema (initializeSchema): the tables start empty. *)

RECURSIVE SortedSeq(_)
\* The elements of a set of integers in ascending order.
SortedSeq(S) ==
  IF S = {} THEN <<>>
  ELSE LET m == CHOOSE x \in S : \A y \in S : x <= y
       IN <<m>> \o SortedSeq(S \ {m})

Range(f) == {f[i] : i \in DOMAIN f}

\* f with the row `row` stored under key id.
Put(f, id, row) == [i \in DOMAIN f \cup {id} |-> IF i = id THEN row ELSE f[i]]

\* f without the keys of `ids`.
Drop(f, ids) == [i \in DOMAIN f \ ids |-> f[i]]

EmptyTables ==
  [characters |-> <<>>,
   projects |-> <<>>,
   tags |-> <<>>,
   character_projects |-> {},
   character_tags |-> {},
   relationships |-> <<>>,
   sqlite_sequence |->
     [characters |-> 0, projects |-> 0, tags |-> 0, relationships |-> 0]]

\* The literals of the INSERT statements.
UnnamedCharacter ==
  <<"U", "n", "n", "a", "m", "e", "d", " ",
    "C", "h", "a", "r", "a", "c", "t", "e", "r">>
UntitledProject ==
  <<"U", "n", "t", "i", "t", "l", "e", "d", " ",
    "P", "r", "o", "j", "e", "c", "t">>
NewTag == <<"N", "e", "w", " ", "T", "a", "g">>
DefaultColor == <<"#", "c", "9", "a", "2", "2", "7">>

\* What an operation that throws returns to its caller.
Thrown == <<"throw">>

\* A parameter bound to a statement: undefined travels as null.
Bind(v) == IF v = Undefined THEN Null ELSE v

\* The result of a call: the tables after it, and what it returns.
Result(t, r) == [tables |-> t, ret |-> r]

----------------------------------------------------------------------------
(* Record codec. *)

\* The personality_traits of parseCharacter: the decoded list, or SyntaxError
\* when JSON.parse throws.
DecodeList(col) ==
  IF Truthy(col)
  THEN (IF col[1] = "string" THEN JSONparse(col[2]) ELSE col)
  ELSE Arr(<<>>)

\* parseCharacter throws on this row.
ParseThrows(row) == DecodeList(row.personality_traits) = SyntaxError

\* parseCharacter, for a row it does not throw on.
parseCharacter(id, row) ==
  [id |-> id,
   name |-> row.name,
   role |-> row.role,
   personality_traits |-> DecodeList(row.personality_traits),
   is_favorite |-> Bool(Truthy(row.is_favorite)),
   is_archived |-> Bool(Truthy(row.is_archived)),
   updated_at |-> row.updated_at]

\* The identifiers generateUUID can return, of which the model keeps two.
UuidPool == {<<"u">>, <<"v">>}

IdKey == <<"i", "d">>
NameKey == <<"n", "a", "m", "e">>
CategoryKey == <<"c", "a", "t", "e", "g", "o", "r", "y">>
PowerLevelKey == <<"p", "o", "w", "e", "r", "L", "e", "v", "e", "l">>
Utility == <<"u", "t", "i", "l", "i", "t", "y">>

\* The Power migratePowers builds for an old string.
NewPower(uuid, name) ==
  Obj([k \in {IdKey, NameKey, CategoryKey, PowerLevelKey} |->
         IF k = IdKey THEN Str(uuid)
         ELSE IF k = NameKey THEN name
         ELSE IF k = CategoryKey THEN Str(Utility)
         ELSE Num(5)])

\* parsed.map(...).filter(p => p !== null) of migratePowers; uuids: what the
\* successive calls of generateUUID return.
RECURSIVE MigrateEntries(_, _)
MigrateEntries(entries, uuids) ==
  IF entries = <<>> THEN <<>>
  ELSE LET power == Head(entries)
       IN IF power[1] = "object" /\ IdKey \in DOMAIN power[2]
                                 /\ NameKey \in DOMAIN power[2]
          THEN <<power>> \o MigrateEntries(Tail(entries), uuids)
          ELSE IF power[1] = "string"
          THEN <<NewPower(Head(uuids), power)>>
               \o MigrateEntries(Tail(entries), Tail(uuids))
          ELSE MigrateEntries(Tail(entries), uuids)

\* migratePowers(powers); uuids: what the successive calls of generateUUID
\* return.
migratePowers(powers, uuids) ==
  IF ~Truthy(powers) THEN Arr(<<>>)
  ELSE LET parsed == IF powers[1] = "string" THEN JSONparse(powers[2]) ELSE powers
       IN IF parsed = SyntaxError THEN Arr(<<NewPower(Head(uuids), powers)>>)
          ELSE IF parsed[1] # "array" THEN Arr(<<>>)
          ELSE Arr(MigrateEntries(parsed[2], uuids))

----------------------------------------------------------------------------
(* Entity store: characters. *)

\* createCharacter with is_favorite and is_archived among the inserted columns.
createCharacterWithFlags(t, character, clock) ==
  LET id == t.sqlite_sequence.characters + 1
      Flag(k) == IF Truthy(Get(character, k)) THEN Num(1) ELSE Num(0)
      row == [name |-> OrElse(Get(character, "name"), Str(UnnamedCharacter)),
              role |-> OrElse(Get(character, "role"), Null),
              personality_traits |->
                IF Truthy(Get(character, "personality_traits"))
                THEN Str(JSONstringify(character.personality_traits))
                ELSE Null,
              is_favorite |-> Flag("is_favorite"),
              is_archived |-> Flag("is_archived"),
              updated_at |-> clock]
  IN Result([t EXCEPT !.characters = Put(@, id, row),
                      !.sqlite_sequence.characters = id],
            Num(id))

createCharacter(t, character, clock) ==
  LET id == t.sqlite_sequence.characters + 1
      row == [name |-> OrElse(Get(character, "name"), Str(UnnamedCharacter)),
              role |-> OrElse(Get(character, "role"), Null),
              personality_traits |->
                IF Truthy(Get(character, "personality_traits"))
                THEN Str(JSONstringify(character.personality_traits))
                ELSE Null,
              is_favorite |-> Num(0),
              is_archived |-> Num(0),
              updated_at |-> clock]
  IN Result([t EXCEPT !.characters = Put(@, id, row),
                      !.sqlite_sequence.characters = id],
            Num(id))

\* The columns the loop of updateCharacter walks, of those the model keeps.
updateableFields == <<"name", "role", "is_favorite", "is_archived">>

\* PushedValue when the empty string becomes null for name as well.
PushedValueEmptyNameToNull(field, character) ==
  LET value == character[field]
      v1 == IF value = Str(<<>>) THEN Null ELSE value
      v2 == IF v1 = Undefined THEN Null ELSE v1
  IN IF v2[1] = "boolean" THEN Num(IF v2[2] THEN 1 ELSE 0) ELSE v2

\* The value the loop pushes for a key that is present.
PushedValue(field, character) ==
  LET value == character[field]
      v1 == IF value = Str(<<>>) /\ field # "name" THEN Null ELSE value
      v2 == IF v1 = Undefined THEN Null ELSE v1
  IN IF v2[1] = "boolean" THEN Num(IF v2[2] THEN 1 ELSE 0) ELSE v2

\* The SET list of the UPDATE statement: column -> bound value.
UpdateAssignments(character) ==
  LET plain == {f \in Range(updateableFields) : f \in DOMAIN character}
      json == {f \in {"personality_traits"} : f \in DOMAIN character}
  IN [f \in plain \cup json |->
        IF f \in plain THEN PushedValue(f, character)
        ELSE IF Truthy(character[f]) THEN Str(JSONstringify(character[f]))
        ELSE Null]

\* updateCharacter when the UPDATE has no WHERE id = ? and writes every row.
updateCharacterEveryRow(t, id, character, clock) ==
  LET set == UpdateAssignments(character)
  IN IF DOMAIN set = {} THEN Result(t, Undefined)
     ELSE Result([t EXCEPT !.characters =
                    [r \in DOMAIN @ |->
                       [c \in DOMAIN @[r] |->
                          IF c \in DOMAIN set THEN set[c]
                          ELSE IF c = "updated_at" THEN clock
                          ELSE @[r][c]]]],
                 Undefined)

updateCharacter(t, id, character, clock) ==
  LET set == UpdateAssignments(character)
  IN IF DOMAIN set = {} THEN Result(t, Undefined)
     ELSE IF id \notin DOMAIN t.characters THEN Result(t, Undefined)
     ELSE IF "name" \in DOMAIN set /\ set.name = Null
       THEN Result(t, Thrown)   \* name TEXT NOT NULL
     ELSE LET old == t.characters[id]
              new == [c \in DOMAIN old |->
                        IF c \in DOMAIN set THEN set[c]
                        ELSE IF c = "updated_at" THEN clock
                        ELSE old[c]]
          IN Result([t EXCEPT !.characters[id] = new], Undefined)

\* deleteCharacter when relationships cascades on character_a_id alone.
deleteCharacterCascadeA(t, id) ==
  Result([t EXCEPT
            !.characters = Drop(@, {id}),
            !.character_projects = {cp \in @ : cp[1] # id},
            !.character_tags = {ct \in @ : ct[1] # id},
            !.relationships =
              Drop(@, {r \in DOMAIN @ : @[r].character_a_id = id})],
         Undefined)

\* ON DELETE CASCADE of character_projects, character_tags and relationships.
deleteCharacter(t, id) ==
  Result([t EXCEPT
            !.characters = Drop(@, {id}),
            !.character_projects = {cp \in @ : cp[1] # id},
            !.character_tags = {ct \in @ : ct[1] # id},
            !.relationships =
              Drop(@, {r \in DOMAIN @ : @[r].character_a_id = id
                                        \/ @[r].character_b_id = id})],
         Undefined)

archiveCharacter(t, id, archived, clock) ==
  IF id \notin DOMAIN t.characters THEN Result(t, Undefined)
  ELSE Result([t EXCEPT !.characters[id].is_archived =
                          Num(IF archived THEN 1 ELSE 0),
                        !.characters[id].updated_at = clock],
              Undefined)

----------------------------------------------------------------------------
(* Entity store: projects, tags, associations, relationships. *)

createProject(t, project, clock) ==
  LET id == t.sqlite_sequence.projects + 1
      row == [name |-> OrElse(Get(project, "name"), Str(UntitledProject)),
              description |-> OrElse(Get(project, "description"), Null),
              color |-> OrElse(Get(project, "color"), Str(DefaultColor)),
              updated_at |-> clock]
  IN Result([t EXCEPT !.projects = Put(@, id, row),
                      !.sqlite_sequence.projects = id],
            Num(id))

\* UPDATE projects SET name = ?, description = ?, color = ?, updated_at =
\* CURRENT_TIMESTAMP WHERE id = ?: all three columns are bound, from
\* project.name, project.description || null and project.color || "#c9a227".
\* name TEXT NOT NULL: the statement throws when a row matches and name is
\* bound as NULL.
updateProject(t, id, project, clock) ==
  LET name == Bind(Get(project, "name"))
  IN IF id \notin DOMAIN t.projects THEN Result(t, Undefined)
     ELSE IF name = Null THEN Result(t, Thrown)
     ELSE Result([t EXCEPT !.projects[id] =
                    [name |-> name,
                     description |-> OrElse(Get(project, "description"), Null),
                     color |-> OrElse(Get(project, "color"), Str(DefaultColor)),
                     updated_at |-> clock]],
                 Undefined)

\* deleteProject when character_projects does not cascade on project_id.
deleteProjectKeepRows(t, id) ==
  Result([t EXCEPT !.projects = Drop(@, {id})], Undefined)

\* ON DELETE CASCADE of character_projects.
deleteProject(t, id) ==
  Result([t EXCEPT !.projects = Drop(@, {id}),
                   !.character_projects = {cp \in @ : cp[2] # id}],
         Undefined)

\* name TEXT UNIQUE NOT NULL: the INSERT throws when the name is taken.
createTag(t, tag) ==
  LET id == t.sqlite_sequence.tags + 1
      row == [name |-> OrElse(Get(tag, "name"), Str(NewTag)),
              color |-> OrElse(Get(tag, "color"), Str(DefaultColor))]
  IN IF \E i \in DOMAIN t.tags : t.tags[i].name = row.name
     THEN Result(t, Thrown)
     ELSE Result([t EXCEPT !.tags = Put(@, id, row),
                           !.sqlite_sequence.tags = id],
                 Num(id))

\* UPDATE tags SET name = ?, color = ? WHERE id = ?: both columns are bound,
\* from tag.name and tag.color. name TEXT UNIQUE NOT NULL.
updateTag(t, id, tag) ==
  LET name == Bind(Get(tag, "name"))
  IN IF id \notin DOMAIN t.tags THEN Result(t, Undefined)
     ELSE IF name = Null THEN Result(t, Thrown)
     ELSE IF \E i \in DOMAIN t.tags \ {id} : t.tags[i].name = name
     THEN Result(t, Thrown)
     ELSE Result([t EXCEPT !.tags[id] =
                    [name |-> name, color |-> Bind(Get(tag, "color"))]],
                 Undefined)

\* ON DELETE CASCADE of character_tags.
deleteTag(t, id) ==
  Result([t EXCEPT !.tags = Drop(@, {id}),
                   !.character_tags = {ct \in @ : ct[2] # id}],
         Undefined)

\* assignCharacterToProject with a plain INSERT: a pair that is already there
\* violates the PRIMARY KEY and throws.
assignCharacterToProjectPlainInsert(t, characterId, projectId) ==
  IF /\ characterId \in DOMAIN t.characters /\ projectId \in DOMAIN t.projects
     /\ <<characterId, projectId>> \notin t.character_projects
  THEN Result([t EXCEPT !.character_projects =
                          @ \cup {<<characterId, projectId>>}],
              Undefined)
  ELSE Result(t, Thrown)

\* INSERT OR IGNORE: an existing pair is left alone; a pair that names a
\* missing character or project violates its FOREIGN KEY and throws.
assignCharacterToProject(t, characterId, projectId) ==
  IF characterId \in DOMAIN t.characters /\ projectId \in DOMAIN t.projects
  THEN Result([t EXCEPT !.character_projects =
                          @ \cup {<<characterId, projectId>>}],
              Undefined)
  ELSE Result(t, Thrown)

removeCharacterFromProject(t, characterId, projectId) ==
  Result([t EXCEPT !.character_projects = @ \ {<<characterId, projectId>>}],
         Undefined)

assignTagToCharacter(t, characterId, tagId) ==
  IF characterId \in DOMAIN t.characters /\ tagId \in DOMAIN t.tags
  THEN Result([t EXCEPT !.character_tags = @ \cup {<<characterId, tagId>>}],
              Undefined)
  ELSE Result(t, Thrown)

removeTagFromCharacter(t, characterId, tagId) ==
  Result([t EXCEPT !.character_tags = @ \ {<<characterId, tagId>>}],
         Undefined)

\* Both endpoints are FOREIGN KEYs into characters.
createRelationship(t, relationship) ==
  LET id == t.sqlite_sequence.relationships + 1
  IN IF /\ relationship.character_a_id \in DOMAIN t.characters
        /\ relationship.character_b_id \in DOMAIN t.characters
     THEN Result([t EXCEPT !.relationships = Put(@, id, relationship),
                           !.sqlite_sequence.relationships = id],
                 Num(id))
     ELSE Result(t, Thrown)

deleteRelationship(t, id) ==
  Result([t EXCEPT !.relationships = Drop(@, {id})], Undefined)

----------------------------------------------------------------------------
(* Query/filter engine. *)

\* ORDER BY rank, updated_at DESC over the rows `ids` of characters; rows
\* that tie come in rowid order.
RECURSIVE OrderRows(_, _, _)
OrderRows(t, ids, rank) ==
  IF ids = {} THEN <<>>
  ELSE LET Before(x, y) ==
             \/ rank[x] < rank[y]
             \/ /\ rank[x] = rank[y]
                /\ \/ t.characters[x].updated_at > t.characters[y].updated_at
                   \/ /\ t.characters[x].updated_at = t.characters[y].updated_at
                      /\ x < y
           first == CHOOSE x \in ids : \A y \in ids \ {x} : Before(x, y)
       IN <<first>> \o OrderRows(t, ids \ {first}, rank)

\* rows.map(parseCharacter)
ParsedRows(t, order) ==
  IF \E i \in DOMAIN order : ParseThrows(t.characters[order[i]]) THEN Thrown
  ELSE Arr([i \in DOMAIN order |-> parseCharacter(order[i], t.characters[order[i]])])

\* Visible with the showArchived flag dropped: the WHERE clause in both queries.
VisibleAlwaysFiltered(row, showArchived) == row.is_archived = Num(0)

\* WHERE is_archived = 0, or no WHERE clause.
Visible(row, showArchived) == showArchived \/ row.is_archived = Num(0)

getAllCharacters(t, showArchived) ==
  LET ids == {i \in DOMAIN t.characters : Visible(t.characters[i], showArchived)}
  IN ParsedRows(t, OrderRows(t, ids, [i \in ids |-> 0]))

\* The WHERE clause of searchCharacters, over the columns the model keeps.
SearchMatches(row, searchTerm) ==
  \/ SqlLike(row.name, searchTerm)
  \/ SqlLike(row.role, searchTerm)
  \/ SqlLike(row.personality_traits, searchTerm)

searchCharacters(t, query, showArchived) ==
  LET searchTerm == <<"%">> \o query \o <<"%">>
      ids == {i \in DOMAIN t.characters :
                /\ Visible(t.characters[i], showArchived)
                /\ SearchMatches(t.characters[i], searchTerm)}
      rank == [i \in ids |->
                 IF SqlLike(t.characters[i].name, searchTerm) THEN 0 ELSE 1]
  IN ParsedRows(t, OrderRows(t, ids, rank))

\* One entry of the relationships of getCharacterById: r.* of row r, and the
\* joined character as related_character.
RelationshipEntry(t, r, other) ==
  [id |-> r,
   character_a_id |-> t.relationships[r].character_a_id,
   character_b_id |-> t.relationships[r].character_b_id,
   relationship_type |-> t.relationships[r].relationship_type,
   related_character |-> [id |-> other, name |-> t.characters[other].name]]

\* JOIN characters c ON r.character_b_id = c.id WHERE r.character_a_id = ?
relationshipsA(t, id) ==
  LET rows == SortedSeq({r \in DOMAIN t.relationships :
                           /\ t.relationships[r].character_a_id = id
                           /\ t.relationships[r].character_b_id \in DOMAIN t.characters})
  IN [i \in DOMAIN rows |->
        RelationshipEntry(t, rows[i], t.relationships[rows[i]].character_b_id)]

\* relationshipsB when the second SELECT is left out.
relationshipsBNone(t, id) == <<>>

\* JOIN characters c ON r.character_a_id = c.id WHERE r.character_b_id = ?
relationshipsB(t, id) ==
  LET rows == SortedSeq({r \in DOMAIN t.relationships :
                           /\ t.relationships[r].character_b_id = id
                           /\ t.relationships[r].character_a_id \in DOMAIN t.characters})
  IN [i \in DOMAIN rows |->
        RelationshipEntry(t, rows[i], t.relationships[rows[i]].character_a_id)]

getCharacterById(t, id) ==
  IF id \notin DOMAIN t.characters THEN Null
  ELSE IF ParseThrows(t.characters[id]) THEN Thrown
  ELSE
    LET projects == {p \in DOMAIN t.projects : <<id, p>> \in t.character_projects}
        tags == {g \in DOMAIN t.tags : <<id, g>> \in t.character_tags}
    IN Obj([character |-> parseCharacter(id, t.characters[id]),
            projects |-> {[id |-> p, row |-> t.projects[p]] : p \in projects},
            tags |-> {[id |-> g, row |-> t.tags[g]] : g \in tags},
            relationships |-> relationshipsA(t, id) \o relationshipsB(t, id)])

\* WHERE tag_id IN (...) GROUP BY character_id HAVING COUNT(DISTINCT tag_id) = ?
\* with ? bound to tagIds.length.
getCharacterIdsByTags(t, tagIds) ==
  IF Len(tagIds) = 0 THEN Arr(<<>>)
  ELSE LET rows == {ct \in t.character_tags : ct[2] \in Range(tagIds)}
           groups == {ct[1] : ct \in rows}
           CountDistinct(c) == Cardinality({ct[2] : ct \in {x \in rows : x[1] = c}})
       IN Arr(SortedSeq({c \in groups : CountDistinct(c) = Len(tagIds)}))

----------------------------------------------------------------------------
(* Import/export coordinator. *)

\* exportAllData: the six arrays of the backup document. A character of the
\* document carries its decoded columns, is_favorite / is_archived included.
exportAllData(t) ==
  IF \E i \in DOMAIN t.characters : ParseThrows(t.characters[i]) THEN Thrown
  ELSE
    LET cs == SortedSeq(DOMAIN t.characters)
        ps == SortedSeq(DOMAIN t.projects)
        gs == SortedSeq(DOMAIN t.tags)
        rs == SortedSeq(DOMAIN t.relationships)
    IN Obj([characters |-> [i \in DOMAIN cs |-> parseCharacter(cs[i], t.characters[cs[i]])],
            projects |-> [i \in DOMAIN ps |->
                            [id |-> Num(ps[i]),
                             name |-> t.projects[ps[i]].name,
                             description |-> t.projects[ps[i]].description,
                             color |-> t.projects[ps[i]].color]],
            tags |-> [i \in DOMAIN gs |->
                        [id |-> Num(gs[i]),
                         name |-> t.tags[gs[i]].name,
                         color |-> t.tags[gs[i]].color]],
            relationships |-> [i \in DOMAIN rs |-> t.relationships[rs[i]]],
            character_projects |-> t.character_projects,
            character_tags |-> t.character_tags])

\* existingNames when the stored names are taken as they are.
ExistingNamesExact(table) == {table[i].name[2] : i \in DOMAIN table}

\* new Set(existing.map((x) => x.name.toLowerCase()))
ExistingNames(table) == {toLowerCase(table[i].name[2]) : i \in DOMAIN table}

\* createProject / createTag / createCharacter on one record of a kind; the
\* call throws at once when the engine fails it.
CreateOfKind(kind, t, record, clock, engineFails) ==
  IF engineFails THEN Result(t, Thrown)
  ELSE IF kind = "projects" THEN createProject(t, record, clock)
  ELSE IF kind = "tags" THEN createTag(t, record)
  ELSE createCharacter(t, record, clock)

ZeroCounts == [imported |-> 0, duplicates |-> 0, errors |-> 0]

\* One turn of a `for (const x of data.<kind>)` loop, on record number i.
\* acc: the tables, the existingNames set, the counts of the kind, the create
\* calls made so far, and whether the loop has thrown. The test of the name
\* stands outside the try block: x.name.toLowerCase() on a name that is
\* truthy and not a string is a TypeError that leaves importData.
ImportRecord(kind, acc, record, i, fails, clock) ==
  LET name == Get(record, "name")
  IN IF ~Truthy(name)
     THEN [acc EXCEPT !.counts.duplicates = @ + 1]
     ELSE IF name[1] # "string"
     THEN [acc EXCEPT !.thrown = TRUE]
     ELSE IF toLowerCase(name[2]) \in acc.existingNames
     THEN [acc EXCEPT !.counts.duplicates = @ + 1]
     ELSE LET r == CreateOfKind(kind, acc.tables, record, clock, i \in fails)
          IN IF r.ret = Thrown
             THEN [acc EXCEPT !.counts.errors = @ + 1,
                              !.trace = Append(@, <<kind, i, "throws">>)]
             ELSE [acc EXCEPT !.tables = r.tables,
                              !.existingNames = @ \cup {toLowerCase(name[2])},
                              !.counts.imported = @ + 1,
                              !.trace = Append(@, <<kind, i, "created">>)]

RECURSIVE ImportRecords(_, _, _, _, _, _)
ImportRecords(kind, acc, records, i, fails, clock) ==
  IF i > Len(records) \/ acc.thrown THEN acc
  ELSE ImportRecords(kind,
                     ImportRecord(kind, acc, records[i], i, fails, clock),
                     records, i + 1, fails, clock)

\* The `if (data.<kind>) { ... }` block of a kind, entered after `before`:
\* the tables and the trace after it, and the counts of the kind.
ImportKind(kind, before, data, fails, clock) ==
  IF ~before.thrown /\ kind \in DOMAIN data
  THEN ImportRecords(kind,
                     [tables |-> before.tables,
                      existingNames |-> ExistingNames(before.tables[kind]),
                      counts |-> ZeroCounts,
                      trace |-> before.trace,
                      thrown |-> FALSE],
                     data[kind], 1, fails[kind], clock)
  ELSE [before EXCEPT !.existingNames = {}, !.counts = ZeroCounts]

\* importData when the tags are imported before the projects.
importDataTagsFirst(t, data, fails, clock) ==
  LET start == [tables |-> t, existingNames |-> {}, counts |-> ZeroCounts,
                trace |-> <<>>, thrown |-> FALSE]
      g == ImportKind("tags", start, data, fails, clock)
      p == ImportKind("projects", g, data, fails, clock)
      c == ImportKind("characters", p, data, fails, clock)
  IN [tables |-> c.tables,
      ret |-> IF c.thrown THEN Thrown
              ELSE Obj([characters |-> c.counts,
                        projects |-> p.counts,
                        tags |-> g.counts]),
      trace |-> c.trace]

\* importData(data). fails[kind] holds the positions of data[kind] at which
\* the engine fails the INSERT. The result carries the tables, the returned
\* ImportResult (or the throw) and the create calls in the order they were
\* made.
importData(t, data, fails, clock) ==
  LET start == [tables |-> t, existingNames |-> {}, counts |-> ZeroCounts,
                trace |-> <<>>, thrown |-> FALSE]
      p == ImportKind("projects", start, data, fails, clock)
      g == ImportKind("tags", p, data, fails, clock)
      c == ImportKind("characters", g, data, fails, clock)
  IN [tables |-> c.tables,
      ret |-> IF c.thrown THEN Thrown
              ELSE Obj([characters |-> c.counts,
                        projects |-> p.counts,
                        tags |-> g.counts]),
      trace |-> c.trace]

----------------------------------------------------------------------------
(* The state machine: one action per exported function of database.ts. *)

\* No toggleFavorite has been called.
toggleCallsInitial ==
  [calls |-> [k \in 1..MaxTogglers |->
                [pc |-> "idle", id |-> 0, seen |-> Null, stored |-> Null,
                 wrote |-> Null, epoch |-> 0]],
   refreshes |-> 0]

\* The CharacterModal before any character was opened: useState({}),
\* useRef(null), no timer, no save in flight.
\* No refreshCharacters has run yet. started: the runs begun; inOrder: every
\* run that has set the list so far was the oldest one in flight.
refreshCallsInitial ==
  [runs |-> [k \in 1..MaxRefreshes |-> [pc |-> "idle", search |-> <<>>]],
   started |-> 0,
   inOrder |-> TRUE]

modalInitial ==
  [mounted |-> FALSE,         \* {isCharacterModalOpen && <CharacterModal />}
   opens |-> 0,               \* the instances of the component mounted so far
   localData |-> <<>>,
   pendingChanges |-> <<>>,
   lastCharacterId |-> Null,  \* lastCharacterIdRef.current
   timer |-> {},              \* the timeout of the auto-save effect, if one is set
   saves |-> <<>>,            \* the timer callbacks awaiting updateCharacter
   \* What has happened so far, for the properties:
   edits |-> 0,               \* the calls of handleChange
   sinceEdit |-> 0,           \* the time since the last one, up to Debounce
   edited |-> {},             \* <<id, field, value>>: the last value given to the field
   everEdited |-> {},         \* <<id, field, value>>: every value given to the field
   burst |-> {},              \* <<field, value>> of the burst of edits going on
   burstQuiet |-> TRUE,       \* no save was in flight when the burst began
   burstCalls |-> <<>>,       \* the updateCharacter calls issued since it began
   calls |-> <<>>,            \* all updateCharacter calls issued by the callbacks
   overlapped |-> FALSE,      \* some edit was made while a save was in flight
   closed |-> FALSE,          \* closed by handleClose and not selected since
   closedInSelect |-> FALSE]  \* ... while a save awaited its selectCharacter

\* The initial state of useStore, of the fields the model keeps.
useStoreInitial ==
  [characters |-> Arr(<<>>),
   projects |-> Arr(<<>>),
   tags |-> Arr(<<>>),
   selectedCharacter |-> Null,
   recentCharacterIds |-> <<>>,
   isCharacterModalOpen |-> FALSE,
   filter |-> [search |-> <<>>, projectId |-> Null, tagIds |-> <<>>,
               showArchived |-> FALSE]]

Init ==
  /\ tables = EmptyTables
  /\ now = 0
  /\ call = [op |-> "none", args |-> <<>>, ret |-> Undefined]
  /\ pre = EmptyTables
  /\ db = Null
  /\ loads = 0
  /\ inits = 0
  /\ getDbCalls = [c \in 1..MaxCallers |->
                     [pc |-> "idle", loaded |-> Null, returned |-> Null]]
  /\ store = useStoreInitial
  /\ toggleCalls = toggleCallsInitial
  /\ modal = modalInitial
  /\ refreshCalls = refreshCallsInitial

\* A call of `op` with `args` that ends as `r` says.
Do(op, args, r) ==
  \E done \in {r} :
    /\ tables' = done.tables
    /\ call' = [op |-> op, args |-> args, ret |-> done.ret]
    /\ pre' = tables
    /\ UNCHANGED <<now, connection, store, frontend>>

\* A query: the tables stay as they are.
Ask(op, args, ret) == Do(op, args, Result(tables, ret))

\* Time passes between two calls.
Tick ==
  /\ now < MaxClock
  /\ now' = now + 1
  /\ call' = [op |-> "none", args |-> <<>>, ret |-> Undefined]
  /\ pre' = tables
  /\ UNCHANGED <<tables, connection, store, frontend>>

CharacterIds == 1..MaxCharacters
ProjectIds == 1..MaxProjects
TagIds == 1..MaxTags
RelationshipIds == 1..MaxRelationships

CreateCharacter(character) ==
  /\ tables.sqlite_sequence.characters < MaxCharacters
  /\ Do("createCharacter", <<character>>, createCharacter(tables, character, now))

UpdateCharacter(id, character) ==
  Do("updateCharacter", <<id, character>>, updateCharacter(tables, id, character, now))

DeleteCharacter(id) ==
  Do("deleteCharacter", <<id>>, deleteCharacter(tables, id))

ArchiveCharacter(id, archived) ==
  Do("archiveCharacter", <<id, archived>>, archiveCharacter(tables, id, archived, now))

CreateProject(project) ==
  /\ tables.sqlite_sequence.projects < MaxProjects
  /\ Do("createProject", <<project>>, createProject(tables, project, now))

UpdateProject(id, project) ==
  Do("updateProject", <<id, project>>, updateProject(tables, id, project, now))

UpdateTag(id, tag) ==
  Do("updateTag", <<id, tag>>, updateTag(tables, id, tag))

DeleteProject(id) ==
  Do("deleteProject", <<id>>, deleteProject(tables, id))

CreateTag(tag) ==
  /\ tables.sqlite_sequence.tags < MaxTags
  /\ Do("createTag", <<tag>>, createTag(tables, tag))

DeleteTag(id) ==
  Do("deleteTag", <<id>>, deleteTag(tables, id))

AssignCharacterToProject(characterId, projectId) ==
  Do("assignCharacterToProject", <<characterId, projectId>>,
     assignCharacterToProject(tables, characterId, projectId))

RemoveCharacterFromProject(characterId, projectId) ==
  Do("removeCharacterFromProject", <<characterId, projectId>>,
     removeCharacterFromProject(tables, characterId, projectId))

AssignTagToCharacter(characterId, tagId) ==
  Do("assignTagToCharacter", <<characterId, tagId>>,
     assignTagToCharacter(tables, characterId, tagId))

RemoveTagFromCharacter(characterId, tagId) ==
  Do("removeTagFromCharacter", <<characterId, tagId>>,
     removeTagFromCharacter(tables, characterId, tagId))

CreateRelationship(relationship) ==
  /\ tables.sqlite_sequence.relationships < MaxRelationships
  /\ Do("createRelationship", <<relationship>>, createRelationship(tables, relationship))

DeleteRelationship(id) ==
  Do("deleteRelationship", <<id>>, deleteRelationship(tables, id))

GetAllCharacters(showArchived) ==
  Ask("getAllCharacters", <<showArchived>>, getAllCharacters(tables, showArchived))

GetCharacterById(id) ==
  Ask("getCharacterById", <<id>>, getCharacterById(tables, id))

GetCharacterIdsByTags(tagIds) ==
  Ask("getCharacterIdsByTags", <<tagIds>>, getCharacterIdsByTags(tables, tagIds))

SearchCharacters(query, showArchived) ==
  Ask("searchCharacters", <<query, showArchived>>,
      searchCharacters(tables, query, showArchived))

ExportAllData ==
  Ask("exportAllData", <<>>, exportAllData(tables))

\* migratePowers(powers), as parseCharacter calls it on the powers column of a
\* row; uuids: what the calls of generateUUID return.
MigratePowers(powers, uuids) ==
  Ask("migratePowers", <<powers>>, migratePowers(powers, uuids))

\* importData(data), the engine failing the INSERTs at the positions `fails`.
\* The ids of a kind run out at its bound.
ImportData(data, fails) ==
  \E done \in {importData(tables, data, fails, now)} :
    /\ done.tables.sqlite_sequence.characters <= MaxCharacters
    /\ done.tables.sqlite_sequence.projects <= MaxProjects
    /\ done.tables.sqlite_sequence.tags <= MaxTags
    /\ tables' = done.tables
    /\ call' = [op |-> "importData", args |-> <<data, fails>>,
                ret |-> done.ret, trace |-> done.trace]
    /\ pre' = tables
    /\ UNCHANGED <<now, connection, store, frontend>>

----------------------------------------------------------------------------
(* Inputs. *)

\* All sequences over S of length at most n.
RECURSIVE SeqsUpTo(_, _)
SeqsUpTo(S, n) ==
  IF n = 0 THEN {<<>>}
  ELSE LET shorter == SeqsUpTo(S, n - 1)
       IN shorter \cup {Append(q, x) : q \in {r \in shorter : Len(r) = n - 1}, x \in S}

\* The name given to the k-th tag, project or character of a run in which
\* names do not matter: distinct letters.
Letter(k) == <<LowerCase[k]>>

----------------------------------------------------------------------------
(* Tag filter: characters, tags and their association.                      *)

NextTags ==
  \/ CreateCharacter([name |-> Str(Letter(tables.sqlite_sequence.characters + 1))])
  \/ CreateTag([name |-> Str(Letter(tables.sqlite_sequence.tags + 1))])
  \/ \E c \in CharacterIds, g \in TagIds : AssignTagToCharacter(c, g)
  \/ \E c \in CharacterIds, g \in TagIds : RemoveTagFromCharacter(c, g)
  \/ \E tagIds \in SeqsUpTo(TagIds, MaxTagIds) : GetCharacterIdsByTags(tagIds)

SpecTags == Init /\ [][NextTags]_vars

\* The characters associated with every tag id that occurs in tagIds.
HaveEveryTag(t, tagIds) ==
  {c \in DOMAIN t.characters : \A g \in Range(tagIds) : <<c, g>> \in t.character_tags}

\* C1: getCharacterIdsByTags(tagIds) returns exactly the characters that are
\* associated with every tag id occurring in tagIds, each once, and the empty
\* list when tagIds is empty.
C1_TagFilterIsIntersection ==
  call.op = "getCharacterIdsByTags" =>
    LET tagIds == call.args[1]
        ids == call.ret[2]
    IN /\ Cardinality(Range(ids)) = Len(ids)
       /\ Range(ids) = IF tagIds = <<>> THEN {} ELSE HaveEveryTag(tables, tagIds)

\* C1 restricted to lists that name no tag id twice (what the code computes).
C1_DistinctTagIds ==
  (call.op = "getCharacterIdsByTags"
   /\ Cardinality(Range(call.args[1])) = Len(call.args[1]))
  => C1_TagFilterIsIntersection

\* A filter on two different tags that keeps one character and drops another
\* that has only one of the two.
C1_Witness ==
  /\ call.op = "getCharacterIdsByTags"
  /\ Cardinality(Range(call.args[1])) = 2
  /\ call.ret[2] # <<>>
  /\ \E c \in DOMAIN tables.characters :
       /\ c \notin Range(call.ret[2])
       /\ \E g \in Range(call.args[1]) : <<c, g>> \in tables.character_tags

----------------------------------------------------------------------------
(* Archive visibility: list and search.                                     *)

\* Characters as the forms create them: a name, or a name and a role.
ArchiveCharacters ==
  {[name |-> Str(<<"A", "b">>)],
   [name |-> Str(<<"b">>), role |-> Str(<<"A">>)]}

\* Search texts: a letter in either case, the empty text, a LIKE wildcard.
Queries == {<<"a">>, <<"B">>, <<>>, <<"_">>}

\* Patches that write the flag through updateCharacter.
ArchivePatches == {[is_archived |-> Bool(TRUE)], [is_archived |-> Undefined]}

NextArchive ==
  \/ \E c \in ArchiveCharacters : CreateCharacter(c)
  \/ \E id \in CharacterIds, b \in BOOLEAN : ArchiveCharacter(id, b)
  \/ \E id \in CharacterIds, patch \in ArchivePatches : UpdateCharacter(id, patch)
  \/ \E b \in BOOLEAN : GetAllCharacters(b)
  \/ \E q \in Queries, b \in BOOLEAN : SearchCharacters(q, b)

SpecArchive == Init /\ [][NextArchive]_vars

\* q occurs in s, letter case ignored.
OccursIn(q, s) ==
  \E i \in 0..(Len(s) - Len(q)) :
    toLowerCase(SubSeq(s, i + 1, i + Len(q))) = toLowerCase(q)

\* q occurs in the name or in the role of the row.
RowContains(row, q) ==
  \/ OccursIn(q, row.name[2])
  \/ (row.role[1] = "string" /\ OccursIn(q, row.role[2]))

\* The ids of the characters of a returned list.
IdsOf(ret) == {ret[2][i].id : i \in DOMAIN ret[2]}

\* C2: after archiveCharacter(id, true) the character is in neither
\* getAllCharacters() nor searchCharacters(q); after archiveCharacter(id, false)
\* it is in both again (for a q it contains); getAllCharacters(true) and
\* searchCharacters(q, true) hold it in every state.
C2_ArchiveVisibility ==
  \A id \in DOMAIN tables.characters :
    LET row == tables.characters[id]
        Listed(b) == id \in IdsOf(getAllCharacters(tables, b))
        Found(q, b) == id \in IdsOf(searchCharacters(tables, q, b))
    IN /\ (call.op = "archiveCharacter" /\ call.args = <<id, TRUE>>)
            => (~Listed(FALSE) /\ \A q \in Queries : ~Found(q, FALSE))
       /\ (call.op = "archiveCharacter" /\ call.args = <<id, FALSE>>)
            => (Listed(FALSE) /\ \A q \in Queries : RowContains(row, q) => Found(q, FALSE))
       /\ Listed(TRUE)
       /\ \A q \in Queries : RowContains(row, q) => Found(q, TRUE)

\* An archived character has just been unarchived, another one is still
\* archived, and a search text occurs in the unarchived one.
C2_Witness ==
  /\ call.op = "archiveCharacter"
  /\ call.args[2] = FALSE
  /\ call.args[1] \in DOMAIN pre.characters
  /\ pre.characters[call.args[1]].is_archived = Num(1)
  /\ RowContains(tables.characters[call.args[1]], <<"a">>)
  /\ \E other \in DOMAIN tables.characters : tables.characters[other].is_archived = Num(1)

----------------------------------------------------------------------------
(* Relationships and the cascade of deleteCharacter. A run fills one of the *)
(* two association tables, with one tag or one project.                     *)

RelationshipTypes == {<<"r">>}

Relationships ==
  {[character_a_id |-> a, character_b_id |-> b,
    relationship_type |-> Str(ty), notes |-> Null] :
     a \in CharacterIds, b \in CharacterIds, ty \in RelationshipTypes}

\* Characters, relationships, and one tag or one project to assign.
BuildRelations ==
  \/ CreateCharacter([name |-> Str(Letter(tables.sqlite_sequence.characters + 1))])
  \/ \E r \in Relationships : CreateRelationship(r)
  \/ /\ tables.sqlite_sequence.tags = 0
     /\ tables.sqlite_sequence.projects = 0
     /\ CreateTag([name |-> Str(Letter(1))])
  \/ /\ tables.sqlite_sequence.tags = 0
     /\ tables.sqlite_sequence.projects = 0
     /\ CreateProject([name |-> Str(Letter(1))])
  \/ \E c \in CharacterIds : AssignTagToCharacter(c, 1)
  \/ \E c \in CharacterIds : AssignCharacterToProject(c, 1)

NextCascade ==
  \/ BuildRelations
  \/ \E c \in CharacterIds : DeleteCharacter(c)

SpecCascade == Init /\ [][NextCascade]_vars

\* Row r of relationships has character x as an endpoint.
Involves(t, r, x) ==
  t.relationships[r].character_a_id = x \/ t.relationships[r].character_b_id = x

\* C3: after deleteCharacter(X) no relationship has X as an endpoint and no
\* association row references X, and the relationship rows and association
\* rows that do not involve X are the ones there were before, unchanged.
C3_DeleteCharacterCascade ==
  call.op = "deleteCharacter" =>
    LET X == call.args[1]
        kept == {r \in DOMAIN pre.relationships : ~Involves(pre, r, X)}
    IN /\ \A r \in DOMAIN tables.relationships : ~Involves(tables, r, X)
       /\ \A cp \in tables.character_projects : cp[1] # X
       /\ \A ct \in tables.character_tags : ct[1] # X
       /\ DOMAIN tables.relationships = kept
       /\ \A r \in kept : tables.relationships[r] = pre.relationships[r]
       /\ tables.character_projects = {cp \in pre.character_projects : cp[1] # X}
       /\ tables.character_tags = {ct \in pre.character_tags : ct[1] # X}

\* The deleted character had a relationship stored with it as character_b_id
\* and an association row; a relationship of its former partner and an
\* association row of another character remain.
C3_Witness ==
  /\ call.op = "deleteCharacter"
  /\ LET X == call.args[1]
     IN /\ X \in DOMAIN pre.characters
        /\ <<X, 1>> \in pre.character_tags \cup pre.character_projects
        /\ tables.character_tags \cup tables.character_projects # {}
        /\ \E r \in DOMAIN pre.relationships, s \in DOMAIN tables.relationships :
             /\ pre.relationships[r].character_b_id = X
             /\ Involves(tables, s, pre.relationships[r].character_a_id)

----------------------------------------------------------------------------
(* getCharacterById over the relationships and associations built above.    *)

NextLookup ==
  \/ BuildRelations
  \/ \E c \in CharacterIds : GetCharacterById(c)

SpecLookup == Init /\ [][NextLookup]_vars

\* C5: getCharacterById(X).relationships holds a stored row exactly when X is
\* its character_a_id or its character_b_id, with the other endpoint as
\* related_character, whichever way the row was stored; and its projects and
\* tags are exactly those associated with X.
C5_RelationsOfCharacter ==
  (call.op = "getCharacterById" /\ call.ret[1] = "object") =>
    LET X == call.args[1]
        got == call.ret[2]
    IN /\ \A r \in DOMAIN tables.relationships :
            (\E i \in DOMAIN got.relationships : got.relationships[i].id = r)
              <=> Involves(tables, r, X)
       /\ \A i \in DOMAIN got.relationships :
            LET e == got.relationships[i]
                row == tables.relationships[e.id]
            IN /\ e.id \in DOMAIN tables.relationships
               /\ e.relationship_type = row.relationship_type
               /\ e.related_character.id =
                    (IF row.character_a_id = X THEN row.character_b_id
                     ELSE row.character_a_id)
               /\ e.related_character.name =
                    tables.characters[e.related_character.id].name
       /\ {p.id : p \in got.projects} =
            {p \in DOMAIN tables.projects : <<X, p>> \in tables.character_projects}
       /\ {g.id : g \in got.tags} =
            {g \in DOMAIN tables.tags : <<X, g>> \in tables.character_tags}
       /\ got.character.id = X

\* The character was fetched with a relationship stored from it, one stored
\* towards it, and an association row.
C5_Witness ==
  /\ call.op = "getCharacterById"
  /\ call.ret[1] = "object"
  /\ LET X == call.args[1]
     IN /\ \E r \in DOMAIN tables.relationships :
             /\ tables.relationships[r].character_a_id = X
             /\ tables.relationships[r].character_b_id # X
        /\ \E r \in DOMAIN tables.relationships :
             /\ tables.relationships[r].character_b_id = X
             /\ tables.relationships[r].character_a_id # X
        /\ call.ret[2].projects # {} \/ call.ret[2].tags # {}

----------------------------------------------------------------------------
(* Deleting projects and tags that characters are associated with.          *)

\* The pairs of a character and a project (or tag) id that get associated:
\* the first character with each of them, every character with the first.
AssocPairs(ids) == {pair \in CharacterIds \X ids : pair[1] = 1 \/ pair[2] = 1}

\* No project and no tag has been deleted yet.
NothingDeleted ==
  /\ Cardinality(DOMAIN tables.projects) = tables.sqlite_sequence.projects
  /\ Cardinality(DOMAIN tables.tags) = tables.sqlite_sequence.tags

\* Projects, tags and associations are set up, then projects and tags are
\* deleted.
SetUpFrame ==
  \/ CreateCharacter([name |-> Str(Letter(tables.sqlite_sequence.characters + 1))])
  \/ CreateProject([name |-> Str(Letter(tables.sqlite_sequence.projects + 1))])
  \/ CreateTag([name |-> Str(Letter(tables.sqlite_sequence.tags + 1))])
  \/ \E pair \in AssocPairs(ProjectIds) : AssignCharacterToProject(pair[1], pair[2])
  \/ \E pair \in AssocPairs(TagIds) : AssignTagToCharacter(pair[1], pair[2])

NextFrame ==
  \/ NothingDeleted /\ SetUpFrame
  \/ \E p \in ProjectIds : DeleteProject(p)
  \/ \E g \in TagIds : DeleteTag(g)

SpecFrame == Init /\ [][NextFrame]_vars

\* C4: after deleteProject(P) (deleteTag(T)) no association row references P
\* (T), the characters table is as it was, and getCharacterById of every
\* character returns what it returned before, less project P (tag T).
C4_DeleteProjectOrTagFrame ==
  call.op \in {"deleteProject", "deleteTag"} =>
    LET X == call.args[1]
        isProject == call.op = "deleteProject"
    IN /\ isProject => \A cp \in tables.character_projects : cp[2] # X
       /\ ~isProject => \A ct \in tables.character_tags : ct[2] # X
       /\ tables.characters = pre.characters
       /\ \A c \in DOMAIN pre.characters :
            LET before == getCharacterById(pre, c)
                after == getCharacterById(tables, c)
            IN before[1] = "object" =>
                 /\ after[1] = "object"
                 /\ after[2].character = before[2].character
                 /\ after[2].relationships = before[2].relationships
                 /\ after[2].projects =
                      {p \in before[2].projects : ~(isProject /\ p.id = X)}
                 /\ after[2].tags =
                      {g \in before[2].tags : ~(~isProject /\ g.id = X)}

\* A project was deleted that two characters were in, one of them also in
\* another project and carrying a tag.
C4_Witness ==
  /\ call.op = "deleteProject"
  /\ LET P == call.args[1]
     IN /\ Cardinality({cp \in pre.character_projects : cp[2] = P}) >= 2
        /\ \E cp \in pre.character_projects, other \in tables.character_projects,
              ct \in tables.character_tags :
             /\ cp[2] = P
             /\ other[1] = cp[1]
             /\ ct[1] = cp[1]

----------------------------------------------------------------------------
(* Import of documents read from a file: JSON.parse(json) goes to importData *)
(* as it is, so a name is whatever JSON value the file holds.               *)

Kinds == {"projects", "tags", "characters"}

\* Incoming records: two names that are equal but for case, a record without
\* a name, and a record whose name is a JSON number.
ImportRecordPool ==
  {[name |-> Str(<<"a">>)], [name |-> Str(<<"A">>)],
   [color |-> Str(DefaultColor)], [name |-> Num(5)]}

Batches == SeqsUpTo(ImportRecordPool, MaxBatch)

\* A document with the same records of each kind.
ImportDocuments == {[k \in Kinds |-> b] : b \in Batches}

\* The engine fails no INSERT, or the first INSERT-ing record of each kind, or
\* the second.
EngineFailures == {[k \in Kinds |-> F] : F \in {{}, {1}, {2}}}

NoFailures == [k \in Kinds |-> {}]

NextImport ==
  \E data \in ImportDocuments, fails \in EngineFailures : ImportData(data, fails)

SpecImport == Init /\ [][NextImport]_vars

\* The create calls of importData that made a row of the kind.
Created(kind) ==
  {i \in 1..Len(call.args[1][kind]) : <<kind, i, "created">> \in Range(call.trace)}

\* The create calls of importData on the kind, thrown or not.
Attempted(kind) ==
  {i \in 1..Len(call.args[1][kind]) :
     \E how \in {"created", "throws"} : <<kind, i, how>> \in Range(call.trace)}

\* s and t are the same string but for the case of letters.
SameIgnoringCase(s, t) ==
  /\ Len(s) = Len(t)
  /\ \A n \in 1..Len(s) :
       \/ s[n] = t[n]
       \/ \E m \in DOMAIN UpperCase :
            {s[n], t[n]} = {UpperCase[m], LowerCase[m]}

\* Record i of the kind has no name, or the name of a row stored before the
\* call or of a record imported earlier in the call, ignoring case.
IsDuplicate(kind, i) ==
  LET records == call.args[1][kind]
      name == Get(records[i], "name")
  IN \/ ~Truthy(name)
     \/ /\ name[1] = "string"
        /\ \/ \E r \in DOMAIN pre[kind] :
                SameIgnoringCase(pre[kind][r].name[2], name[2])
           \/ \E j \in Created(kind) :
                j < i /\ SameIgnoringCase(records[j].name[2], name[2])

\* C6: in importData a record without a name, or with the name (ignoring
\* case) of a stored row or of a record imported earlier in the batch, makes
\* no create call and no row, and is counted in duplicates; two records of
\* one name into a store without it give one imported and one duplicate.
C6_ImportDuplicates ==
  call.op = "importData" =>
    \A kind \in DOMAIN call.args[1] :
      LET records == call.args[1][kind]
          dups == {i \in 1..Len(records) : IsDuplicate(kind, i)}
      IN /\ dups \cap Attempted(kind) = {}
         /\ Cardinality(DOMAIN tables[kind]) =
              Cardinality(DOMAIN pre[kind]) + Cardinality(Created(kind))
         /\ call.ret[1] = "object" =>
              /\ call.ret[2][kind].duplicates = Cardinality(dups)
              /\ (/\ Len(records) = 2
                  /\ records[1] = records[2]
                  /\ ~IsDuplicate(kind, 1)
                  /\ call.args[2][kind] = {})
                 => /\ call.ret[2][kind].imported = 1
                    /\ call.ret[2][kind].duplicates = 1

\* An import met a stored row of the same name in another case and counted
\* the record as a duplicate.
C6_Witness ==
  /\ call.op = "importData"
  /\ call.ret[1] = "object"
  /\ \E kind \in DOMAIN call.args[1] :
       LET records == call.args[1][kind]
       IN /\ \E i \in 1..Len(records), r \in DOMAIN pre[kind] :
               /\ Get(records[i], "name")[1] = "string"
               /\ records[i].name # pre[kind][r].name
               /\ SameIgnoringCase(pre[kind][r].name[2], records[i].name[2])
          /\ call.ret[2][kind].duplicates >= 1
          /\ tables[kind] = pre[kind]

\* The create calls of importData on the kind that threw.
Failed(kind) ==
  {i \in 1..Len(call.args[1][kind]) : <<kind, i, "throws">> \in Range(call.trace)}

\* What C8 says of a call of importData that has returned its counts.
CountsEveryRecord ==
  \A kind \in DOMAIN call.args[1] :
    LET counts == call.ret[2][kind]
        records == call.args[1][kind]
    IN /\ counts.imported + counts.duplicates + counts.errors = Len(records)
       /\ counts.errors = Cardinality(Failed(kind))
       /\ counts.imported = Cardinality(Created(kind))
       \* every record that is no duplicate was tried, also after a throw
       /\ \A i \in 1..Len(records) : IsDuplicate(kind, i) \/ i \in Attempted(kind)
       \* the rows made before a throw are in the table
       /\ Cardinality(DOMAIN tables[kind]) =
            Cardinality(DOMAIN pre[kind]) + Cardinality(Created(kind))

\* C8: importData never fails because of a record: it returns counts in which
\* every record of a kind is one of imported, duplicates and errors; a create
\* call that throws is counted in errors, the records after it are processed
\* and the rows created before it stay.
C8_ImportNeverFails ==
  call.op = "importData" => (call.ret[1] = "object" /\ CountsEveryRecord)

\* The same, for the calls in which every name is a string, null or missing.
C8_WithStringNames ==
  (/\ call.op = "importData"
   /\ \A kind \in DOMAIN call.args[1] : \A i \in DOMAIN call.args[1][kind] :
        Get(call.args[1][kind][i], "name")[1] \in {"string", "undefined", "null"})
  => (call.ret[1] = "object" /\ CountsEveryRecord)

\* importData threw with a row of the same call already stored.
C8_ThrowsAfterCreating ==
  /\ call.op = "importData"
  /\ call.ret = Thrown
  /\ tables # pre

----------------------------------------------------------------------------
(* Import of a full backup into a store that holds associations.            *)

\* The first character, project and tag, associated with each other, and a
\* relationship of the character.
SetUpRestore ==
  \/ /\ tables.sqlite_sequence.characters = 0
     /\ CreateCharacter([name |-> Str(Letter(1))])
  \/ /\ tables.sqlite_sequence.projects = 0
     /\ CreateProject([name |-> Str(Letter(1))])
  \/ /\ tables.sqlite_sequence.tags = 0
     /\ CreateTag([name |-> Str(Letter(1))])
  \/ AssignCharacterToProject(1, 1)
  \/ AssignTagToCharacter(1, 1)
  \/ /\ tables.sqlite_sequence.relationships = 0
     /\ CreateRelationship([character_a_id |-> 1, character_b_id |-> 1,
                            relationship_type |-> Str(<<"r">>), notes |-> Null])

RestoreBatches == SeqsUpTo({[name |-> Str(Letter(1))], [name |-> Str(Letter(2))]}, MaxBatch)

\* A full backup: the six arrays, the second character being in the second
\* project, carrying the second tag and related to the first character. And
\* a document of characters alone.
BackupDocuments ==
  {[characters |-> b, projects |-> b, tags |-> b,
    relationships |-> <<[character_a_id |-> 2, character_b_id |-> 1,
                         relationship_type |-> Str(<<"r">>), notes |-> Null]>>,
    character_projects |-> {<<2, 2>>},
    character_tags |-> {<<2, 2>>}] : b \in RestoreBatches}
  \cup {[characters |-> b] : b \in RestoreBatches}

NextRestore ==
  \/ SetUpRestore
  \/ \E data \in BackupDocuments : ImportData(data, NoFailures)

SpecRestore == Init /\ [][NextRestore]_vars

\* The place of a kind in the order of import.
KindOrder == [projects |-> 1, tags |-> 2, characters |-> 3]

\* C9: importData leaves character_projects, character_tags and relationships
\* as they were, whatever arrays the document carries; it leaves the stored
\* rows as they were and makes its create calls for the projects first, then
\* for the tags, then for the characters.
C9_ImportBareEntities ==
  call.op = "importData" =>
    /\ tables.character_projects = pre.character_projects
    /\ tables.character_tags = pre.character_tags
    /\ tables.relationships = pre.relationships
    /\ \A kind \in Kinds : \A r \in DOMAIN pre[kind] :
         r \in DOMAIN tables[kind] /\ tables[kind][r] = pre[kind][r]
    /\ \A i \in DOMAIN call.trace : \A j \in DOMAIN call.trace :
         i < j => KindOrder[call.trace[i][1]] <= KindOrder[call.trace[j][1]]
    /\ \A kind \in Kinds :
         Cardinality(DOMAIN tables[kind]) =
           Cardinality(DOMAIN pre[kind]) + Cardinality({i \in DOMAIN call.trace :
                                                         call.trace[i][1] = kind})

\* A backup carrying association and relationship arrays was imported into a
\* store holding such rows, and made a project, a tag and a character.
C9_Witness ==
  /\ call.op = "importData"
  /\ {"relationships", "character_projects", "character_tags"} \subseteq DOMAIN call.args[1]
  /\ pre.character_projects # {}
  /\ pre.character_tags # {}
  /\ DOMAIN pre.relationships # {}
  /\ \A kind \in Kinds : \E i \in DOMAIN call.trace : call.trace[i][1] = kind

----------------------------------------------------------------------------
(* Export of a store whose names repeat.                                    *)

ExportNames == {<<"a">>, <<"A">>}

NextExport ==
  \/ \E n \in ExportNames : CreateCharacter([name |-> Str(n)])
  \/ \E n \in ExportNames : CreateProject([name |-> Str(n)])
  \/ \E n \in ExportNames : CreateTag([name |-> Str(n)])
  \/ \E c \in CharacterIds : UpdateCharacter(c, [name |-> Str(<<>>)])
  \/ ExportAllData

SpecExport == Init /\ [][NextExport]_vars

\* The tables after importData of the exported document into an empty store.
Reimported == importData(EmptyTables, call.ret[2], NoFailures, now).tables

\* The rows of a table whose name is not empty and is not, ignoring case, the
\* name of a row before them.
FirstOfName(table) ==
  {r \in DOMAIN table :
     /\ table[r].name[2] # <<>>
     /\ \A q \in DOMAIN table :
          q < r => ~SameIgnoringCase(table[q].name[2], table[r].name[2])}

\* C7, as stated: exportAllData and then importData of its characters,
\* projects and tags into an empty store gives as many characters, projects
\* and tags as the exported store has.
C7_RoundTripCounts ==
  (call.op = "exportAllData" /\ call.ret[1] = "object") =>
    \A kind \in Kinds :
      Cardinality(DOMAIN Reimported[kind]) = Cardinality(DOMAIN tables[kind])

\* C7, amended: the round trip gives, of each kind, as many rows as the
\* exported store has non-empty names that differ ignoring case; so it gives
\* the same counts exactly when the names of each kind are non-empty and
\* differ from each other ignoring case.
C7_RoundTripDistinctNames ==
  (call.op = "exportAllData" /\ call.ret[1] = "object") =>
    \A kind \in Kinds :
      /\ Cardinality(DOMAIN Reimported[kind]) = Cardinality(FirstOfName(tables[kind]))
      /\ Cardinality(DOMAIN Reimported[kind]) = Cardinality(DOMAIN tables[kind])
           <=> FirstOfName(tables[kind]) = DOMAIN tables[kind]

\* A store was exported in which two tags have the same name but for case and
\* a character has the empty name.
C7_Witness ==
  /\ call.op = "exportAllData"
  /\ call.ret[1] = "object"
  /\ Cardinality(DOMAIN tables.tags) = 2
  /\ Cardinality(FirstOfName(tables.tags)) = 1
  /\ \E c \in DOMAIN tables.characters : tables.characters[c].name = Str(<<>>)
  /\ Cardinality(DOMAIN Reimported.characters) < Cardinality(DOMAIN tables.characters)

----------------------------------------------------------------------------
(* Partial updates of one character.                                        *)

\* What a patch may hold under each key; Absent: the key is not in the patch.
\* dnd_enabled is a key of Character that is no column of the UPDATE.
PatchOptions ==
  [name : {Absent, Undefined, Str(<<>>), Str(<<"b">>)},
   role : {Absent, Undefined, Str(<<>>), Str(<<"y">>)},
   is_favorite : {Absent, Bool(TRUE), Bool(FALSE)},
   personality_traits : {Absent, Undefined, Arr(<<>>), Arr(<<Str(<<"t">>)>>)},
   dnd_enabled : {Absent, Bool(TRUE)}]

\* The patches of at most two keys.
Patches ==
  {MkObject(opt) : opt \in {o \in PatchOptions :
                              Cardinality({k \in DOMAIN o : o[k] # Absent}) <= 2}}

NextUpdate ==
  \/ /\ tables.sqlite_sequence.characters = 0
     /\ CreateCharacter([name |-> Str(<<"a">>), role |-> Str(<<"x">>)])
  \/ \E patch \in Patches : UpdateCharacter(1, patch)
  \/ Tick

SpecUpdate == Init /\ [][NextUpdate]_vars

\* The columns of a characters row but updated_at.
Columns == {"name", "role", "personality_traits", "is_favorite", "is_archived"}

\* What the UPDATE stores for value v under column c.
StoredAs(c, v, stored) ==
  IF v[1] = "boolean" THEN stored = Num(IF v[2] THEN 1 ELSE 0)
  ELSE IF v[1] = "array" THEN stored[1] = "string" /\ JSONparse(stored[2]) = v
  ELSE stored = v

\* C10, as stated: updateCharacter(id, patch) writes the columns named by
\* the keys of patch and updated_at, and leaves the others; the empty string
\* is stored as null but for name; a key that is undefined or absent leaves
\* the stored value; a boolean is stored as 0 or 1.
C10_UpdateWritesPresentKeys ==
  (call.op = "updateCharacter" /\ call.args[1] \in DOMAIN pre.characters) =>
    LET patch == call.args[2]
        old == pre.characters[call.args[1]]
        new == tables.characters[call.args[1]]
    IN /\ \A c \in Columns :
            LET v == Get(patch, c)
            IN IF v = Undefined THEN new[c] = old[c]
               ELSE IF v = Str(<<>>) /\ c # "name" THEN new[c] = Null
               ELSE StoredAs(c, v, new[c])
       /\ new.updated_at = now

\* C10, amended: of the keys of patch, updateCharacter takes those that are
\* columns of the UPDATE. With none it writes nothing. A name of undefined is
\* bound as NULL, the statement fails and nothing is written. Otherwise each
\* of these columns is written and updated_at with them, the others are left:
\* undefined is stored as null, the empty string as null but for name, a
\* boolean as 0 or 1.
C10_UpdateWritesUpdatableKeys ==
  (call.op = "updateCharacter" /\ call.args[1] \in DOMAIN pre.characters) =>
    LET patch == call.args[2]
        present == DOMAIN patch \cap Columns
        old == pre.characters[call.args[1]]
        new == tables.characters[call.args[1]]
    IN IF present = {} THEN tables = pre /\ call.ret = Undefined
       ELSE IF "name" \in present /\ patch.name \in {Undefined, Null}
       THEN tables = pre /\ call.ret = Thrown
       ELSE /\ call.ret = Undefined
            /\ new.updated_at = now
            /\ \A c \in Columns \ present : new[c] = old[c]
            /\ \A c \in present :
                 IF patch[c] = Undefined THEN new[c] = Null
                 ELSE IF patch[c] = Str(<<>>) /\ c # "name" THEN new[c] = Null
                 ELSE StoredAs(c, patch[c], new[c])

\* A patch with role undefined was applied to a character that had a role,
\* at a later time than its last write.
C10_Witness ==
  /\ call.op = "updateCharacter"
  /\ call.args[1] \in DOMAIN pre.characters
  /\ "role" \in DOMAIN call.args[2]
  /\ call.args[2].role = Undefined
  /\ pre.characters[call.args[1]].role # Null
  /\ tables.characters[call.args[1]].role = Null
  /\ pre.characters[call.args[1]].updated_at < now

----------------------------------------------------------------------------
(* The favorite flag of characters that have associations and relationships. *)

\* Characters, the first project and tag with the first character in them,
\* and a relationship from the first character to the second.
SetUpFavorite ==
  \/ CreateCharacter([name |-> Str(Letter(tables.sqlite_sequence.characters + 1))])
  \/ /\ tables.sqlite_sequence.projects = 0
     /\ CreateProject([name |-> Str(Letter(1))])
  \/ /\ tables.sqlite_sequence.tags = 0
     /\ CreateTag([name |-> Str(Letter(1))])
  \/ AssignCharacterToProject(1, 1)
  \/ AssignTagToCharacter(1, 1)
  \/ /\ tables.sqlite_sequence.relationships = 0
     /\ CreateRelationship([character_a_id |-> 1, character_b_id |-> 2,
                            relationship_type |-> Str(<<"r">>), notes |-> Null])

\* The rows are set up at time 0; the flag is written then or later.
NextFavorite ==
  \/ now = 0 /\ SetUpFavorite
  \/ \E c \in CharacterIds, b \in BOOLEAN :
       UpdateCharacter(c, [is_favorite |-> Bool(b)])
  \/ Tick

SpecFavorite == Init /\ [][NextFavorite]_vars

\* C11: updateCharacter(id, {is_favorite: true}) on a stored character sets
\* its is_favorite to 1 and its updated_at to the current time, and leaves its
\* other columns, the other characters, the projects, the tags, the
\* associations and the relationships as they were.
C11_FavoritePatchFrame ==
  (/\ call.op = "updateCharacter"
   /\ call.args[2] = [is_favorite |-> Bool(TRUE)]
   /\ call.args[1] \in DOMAIN pre.characters) =>
    LET id == call.args[1]
        old == pre.characters[id]
        new == tables.characters[id]
    IN /\ DOMAIN tables.characters = DOMAIN pre.characters
       /\ new.is_favorite = Num(1)
       /\ new.updated_at = now
       /\ \A c \in DOMAIN old \ {"is_favorite", "updated_at"} : new[c] = old[c]
       /\ \A other \in DOMAIN pre.characters \ {id} :
            tables.characters[other] = pre.characters[other]
       /\ tables.projects = pre.projects
       /\ tables.tags = pre.tags
       /\ tables.character_projects = pre.character_projects
       /\ tables.character_tags = pre.character_tags
       /\ tables.relationships = pre.relationships

\* The flag of a character that was not a favorite was set, later than its
\* last write, in a store with another character, associations and a
\* relationship.
C11_Witness ==
  /\ call.op = "updateCharacter"
  /\ call.args[2] = [is_favorite |-> Bool(TRUE)]
  /\ call.args[1] \in DOMAIN pre.characters
  /\ pre.characters[call.args[1]].is_favorite = Num(0)
  /\ pre.characters[call.args[1]].updated_at < now
  /\ tables.characters[call.args[1]].is_favorite = Num(1)
  /\ Cardinality(DOMAIN pre.characters) >= 2
  /\ pre.character_projects # {}
  /\ pre.character_tags # {}
  /\ DOMAIN pre.relationships # {}

----------------------------------------------------------------------------
(* Updates of projects and tags with patches that leave fields out.         *)

\* Patches of a project and of a tag: each key is there or not.
ProjectPatches ==
  {MkObject(opt) : opt \in [name : {Absent, Str(<<"n">>)},
                            description : {Absent, Str(<<"e">>)},
                            color : {Absent, Str(<<"k">>)}]}

TagPatches ==
  {MkObject(opt) : opt \in [name : {Absent, Str(<<"n">>)},
                            color : {Absent, Str(<<"k">>)}]}

\* One project and one tag and a second tag, so that a tag name can be taken.
NextPartial ==
  \/ /\ tables.sqlite_sequence.projects = 0
     /\ CreateProject([name |-> Str(Letter(1)),
                       description |-> Str(<<"d">>), color |-> Str(<<"c">>)])
  \/ /\ tables.sqlite_sequence.tags < 2
     /\ CreateTag([name |-> Str(Letter(tables.sqlite_sequence.tags + 1)),
                   color |-> Str(<<"c">>)])
  \/ \E patch \in ProjectPatches : UpdateProject(1, patch)
  \/ \E g \in {1, 2}, patch \in TagPatches : UpdateTag(g, patch)
  \/ Tick

SpecPartial == Init /\ [][NextPartial]_vars

\* C12: updateProject(id, patch) and updateTag(id, patch) on a stored row
\* leave the stored value of every field of name, description and color that
\* patch omits as it was.
C12_ProjectTagUpdatesArePartial ==
  \A table \in {"projects", "tags"} :
    (/\ call.op = (IF table = "projects" THEN "updateProject" ELSE "updateTag")
     /\ call.args[1] \in DOMAIN pre[table]) =>
      LET old == pre[table][call.args[1]]
          new == tables[table][call.args[1]]
      IN /\ call.ret # Thrown
         /\ \A field \in (DOMAIN old \ {"updated_at"}) \ DOMAIN call.args[2] :
              new[field] = old[field]

\* What the code does instead: a patch with a name writes every column, the
\* omitted description as null and the omitted color as the default (null
\* for a tag); a patch without a name throws and writes nothing.
C12_EveryColumnIsWritten ==
  \A table \in {"projects", "tags"} :
    (/\ call.op = (IF table = "projects" THEN "updateProject" ELSE "updateTag")
     /\ call.args[1] \in DOMAIN pre[table]) =>
      LET patch == call.args[2]
          new == tables[table][call.args[1]]
      IN IF "name" \notin DOMAIN patch THEN call.ret = Thrown /\ tables = pre
         ELSE \/ call.ret = Thrown /\ tables = pre /\ table = "tags"
              \/ /\ call.ret = Undefined
                 /\ new.name = patch.name
                 /\ new.color = (IF "color" \in DOMAIN patch THEN patch.color
                                 ELSE IF table = "projects" THEN Str(DefaultColor)
                                 ELSE Null)
                 /\ table = "projects" =>
                      new.description = (IF "description" \in DOMAIN patch
                                         THEN patch.description ELSE Null)

\* updateProject with a name alone erased a description.
C12_DescriptionErased ==
  /\ call.op = "updateProject"
  /\ call.args[1] \in DOMAIN pre.projects
  /\ DOMAIN call.args[2] = {"name"}
  /\ pre.projects[call.args[1]].description = Str(<<"d">>)
  /\ tables.projects[call.args[1]].description = Null

----------------------------------------------------------------------------
(* The names of characters under create, update, archive and import.        *)

\* A character with the empty name, and one with a name.
NamedCharacters == {[name |-> Str(<<>>)], [name |-> Str(<<"a">>)]}

NamePatches == {[name |-> Str(<<>>)], [role |-> Str(<<>>)]}

NameDocuments ==
  {[characters |-> b] :
     b \in SeqsUpTo({[name |-> Str(<<>>)], [name |-> Str(<<"c">>)]}, MaxBatch)}

NextNames ==
  \/ \E character \in NamedCharacters : CreateCharacter(character)
  \/ \E c \in CharacterIds, patch \in NamePatches : UpdateCharacter(c, patch)
  \/ \E c \in CharacterIds : ArchiveCharacter(c, TRUE)
  \/ \E data \in NameDocuments : ImportData(data, NoFailures)

SpecNames == Init /\ [][NextNames]_vars

\* C13: after any calls of createCharacter, updateCharacter, archiveCharacter
\* and importData every stored character has a name that is not empty.
C13_NameNeverEmpty ==
  \A c \in DOMAIN tables.characters :
    /\ tables.characters[c].name[1] = "string"
    /\ tables.characters[c].name[2] # <<>>

\* The same of the rows that createCharacter and importData make, and of the
\* rows that archiveCharacter writes.
C13_CreatedNamesNotEmpty ==
  call.op \in {"createCharacter", "importData", "archiveCharacter"} =>
    /\ \A c \in DOMAIN tables.characters \ DOMAIN pre.characters :
         /\ tables.characters[c].name[1] = "string"
         /\ tables.characters[c].name[2] # <<>>
    /\ \A c \in DOMAIN pre.characters :
         tables.characters[c].name = pre.characters[c].name

\* updateCharacter stored the empty name.
C13_EmptyNameStored ==
  /\ call.op = "updateCharacter"
  /\ call.args[1] \in DOMAIN pre.characters
  /\ pre.characters[call.args[1]].name # Str(<<>>)
  /\ tables.characters[call.args[1]].name = Str(<<>>)

----------------------------------------------------------------------------
(* getDb: the cached connection handle, under callers that overlap.         *)

Callers == 1..MaxCallers

\* getDb() is called: it runs to its first await. With db null that is the
\* await of Database.load, which has been called and gives a new handle;
\* else getDb returns db.
GetDbCall(c) ==
  /\ getDbCalls[c].pc = "idle"
  /\ IF ~Truthy(db)
     THEN /\ loads' = loads + 1
          /\ getDbCalls' = [getDbCalls EXCEPT ![c].pc = "load",
                                              ![c].loaded = Num(loads + 1)]
     ELSE /\ loads' = loads
          /\ getDbCalls' = [getDbCalls EXCEPT ![c].pc = "returned",
                                              ![c].returned = db]
  /\ UNCHANGED <<db, inits, tables, now, call, pre, store, frontend>>

\* Database.load resolves: db is assigned the handle it gave, and
\* initializeSchema() is called and runs to its first await.
GetDbLoaded(c) ==
  /\ getDbCalls[c].pc = "load"
  /\ db' = getDbCalls[c].loaded
  /\ inits' = inits + 1
  /\ getDbCalls' = [getDbCalls EXCEPT ![c].pc = "schema"]
  /\ UNCHANGED <<loads, tables, now, call, pre, store, frontend>>

\* initializeSchema resolves: getDb returns what db is now.
GetDbInitialized(c) ==
  /\ getDbCalls[c].pc = "schema"
  /\ getDbCalls' = [getDbCalls EXCEPT ![c].pc = "returned", ![c].returned = db]
  /\ UNCHANGED <<db, loads, inits, tables, now, call, pre, store, frontend>>

\* A caller that has its handle calls again later.
GetDbAgain(c) ==
  /\ getDbCalls[c].pc = "returned"
  /\ getDbCalls' = [getDbCalls EXCEPT ![c] =
                      [pc |-> "idle", loaded |-> Null, returned |-> Null]]
  /\ UNCHANGED <<db, loads, inits, tables, now, call, pre, store, frontend>>

NextGetDb ==
  \E c \in Callers :
    GetDbCall(c) \/ GetDbLoaded(c) \/ GetDbInitialized(c) \/ GetDbAgain(c)

SpecGetDb == Init /\ [][NextGetDb]_vars

\* C14: in every interleaving of getDb calls Database.load is called once and
\* initializeSchema runs once, and every getDb returns the one cached handle.
C14_OneConnection ==
  /\ loads <= 1
  /\ inits <= 1
  /\ \A c \in Callers, d \in Callers :
       (getDbCalls[c].pc = "returned" /\ getDbCalls[d].pc = "returned")
         => getDbCalls[c].returned = getDbCalls[d].returned

\* What holds instead: only a call that finds db null loads, so a call made
\* once db is set returns db and loads nothing; there are at most as many
\* loads as callers and as many schema runs as loads that have resolved.
C14_LoadsOnlyWhileNull ==
  /\ inits <= loads
  /\ loads <= MaxCallers
  /\ Truthy(db) <=> inits > 0
  /\ \A c \in Callers :
       getDbCalls[c].pc = "returned" => Truthy(getDbCalls[c].returned)

\* Three calls overlapped: three loads, three schema runs.
C14_ThreeConnections ==
  /\ loads = 3
  /\ inits = 3
  /\ \A c \in 1..3 : getDbCalls[c].pc = "returned"

----------------------------------------------------------------------------
(* Decoding of stored rows (C15). *)

\* What the personality_traits column of a stored file can hold: NULL, the
\* texts updateCharacter writes, and texts that are not JSON.
StoredTexts ==
  {Null, Str(<<"[", "]">>), Str(<<"[", "\"", "t", "\"", "]">>), Str(<<"[">>), Str(<<"t">>)}

StoredCharacters ==
  [name : {Str(<<"a">>)}, role : {Null}, personality_traits : StoredTexts,
   is_favorite : {Num(0)}, is_archived : {Num(0), Num(1)}, updated_at : {0}]

\* The application starts on a database file that already holds characters.
InitDecode ==
  /\ \E n \in 1..MaxCharacters : \E rows \in [1..n -> StoredCharacters] :
       tables = [EmptyTables EXCEPT !.characters = rows,
                                    !.sqlite_sequence.characters = n]
  /\ now = 0
  /\ call = [op |-> "none", args |-> <<>>, ret |-> Undefined]
  /\ pre = EmptyTables
  /\ db = Null
  /\ loads = 0
  /\ inits = 0
  /\ getDbCalls = [c \in 1..MaxCallers |->
                     [pc |-> "idle", loaded |-> Null, returned |-> Null]]
  /\ store = useStoreInitial
  /\ toggleCalls = toggleCallsInitial
  /\ modal = modalInitial
  /\ refreshCalls = refreshCallsInitial

NextDecode ==
  \/ \E b \in BOOLEAN : GetAllCharacters(b)
  \/ \E id \in 1..MaxCharacters : GetCharacterById(id)
  \/ \E q \in {<<"a">>, <<"z">>}, b \in BOOLEAN : SearchCharacters(q, b)
  \/ ExportAllData

SpecDecode == InitDecode /\ [][NextDecode]_vars

DecodingQueries ==
  {"getAllCharacters", "getCharacterById", "searchCharacters", "exportAllData"}

\* C15: decoding a stored row never raises, so getAllCharacters,
\* getCharacterById, searchCharacters and exportAllData return even when a row
\* holds corrupt JSON.
C15_DecodingNeverRaises ==
  call.op \in DecodingQueries => call.ret # Thrown

\* A query raises only when a stored personality_traits text is not JSON.
C15_RaisesOnlyOnCorruptText ==
  (call.op \in DecodingQueries /\ call.ret = Thrown)
    => \E i \in DOMAIN tables.characters :
         LET col == tables.characters[i].personality_traits
         IN col # Null /\ col[2] \notin {<<"[", "]">>, <<"[", "\"", "t", "\"", "]">>}

\* getAllCharacters raised on a store with one readable and one corrupt row.
C15_CorruptRowRaises ==
  /\ call.op = "getAllCharacters"
  /\ call.ret = Thrown
  /\ \E i \in DOMAIN tables.characters :
       tables.characters[i].personality_traits = Str(<<"[", "\"", "t", "\"", "]">>)

----------------------------------------------------------------------------
(* Migration of the powers column (C16). *)

\* The texts of the entries of a stored list: a string, a number, null, a
\* Power, and an object without name.
PowerEntryTexts ==
  {<<"\"", "x", "\"">>, <<"7">>, <<"n", "u", "l", "l">>, <<"{", "\"", "i", "d", "\"", ":", "\"", "i", "\"", ",", "\"", "n", "a", "m", "e", "\"", ":", "\"", "x", "\"", "}">>, <<"{", "\"", "i", "d", "\"", ":", "\"", "i", "\"", "}">>}

RECURSIVE JoinTexts(_)
JoinTexts(l) ==
  IF l = <<>> THEN <<>>
  ELSE Head(l) \o (IF Tail(l) = <<>> THEN <<>> ELSE <<",">> \o JoinTexts(Tail(l)))

\* The powers column as the current version writes it.
PowerListTexts ==
  {<<"[">> \o JoinTexts(l) \o <<"]">> : l \in SeqsUpTo(PowerEntryTexts, MaxPowers)}

\* The powers column as an older version left it: the name of one power.
BarePowerTexts == {<<"x">>, <<"[", "x">>, <<"7">>, <<"t", "r", "u", "e">>, <<"\"", "x", "\"">>}

StoredPowers ==
  {Null, Str(<<>>)} \cup {Str(s) : s \in PowerListTexts \cup BarePowerTexts}

\* One row is decoded: its powers column goes through migratePowers once.
NextPowers ==
  /\ call.op = "none"
  /\ \E powers \in StoredPowers : \E uuids \in [1..MaxPowers -> UuidPool] :
       MigratePowers(powers, uuids)

SpecPowers == Init /\ [][NextPowers]_vars

\* p is a Power made for the old string `name`.
IsUpgraded(p, name) ==
  /\ p[1] = "object"
  /\ DOMAIN p[2] = {IdKey, NameKey, CategoryKey, PowerLevelKey}
  /\ p[2][NameKey] = name
  /\ p[2][CategoryKey] = Str(Utility)
  /\ p[2][PowerLevelKey] = Num(5)
  /\ p[2][IdKey][1] = "string" /\ p[2][IdKey][2] # <<>>

\* e is a string or an object with id and name.
IsKeptEntry(e) ==
  \/ e[1] = "string"
  \/ e[1] = "object" /\ IdKey \in DOMAIN e[2] /\ NameKey \in DOMAIN e[2]

\* ret is the stored list `entries` with its strings upgraded, its other
\* entries without id and name dropped, and the rest kept in order.
IsMigratedList(ret, entries) ==
  LET kept == SelectSeq(entries, IsKeptEntry)
  IN /\ ret[1] = "array"
     /\ Len(ret[2]) = Len(kept)
     /\ \A i \in DOMAIN kept :
          IF kept[i][1] = "string" THEN IsUpgraded(ret[2][i], kept[i])
          ELSE ret[2][i] = kept[i]

\* The stored text s is a list.
IsListText(s) == JSONparse(s)[1] = "array"

\* C16: a non-empty bare string in the powers column decodes to exactly one
\* Power of that name, category "utility", powerLevel 5 and a non-empty id; in
\* a stored list each string is upgraded the same way, each entry that is
\* neither a string nor an object with id and name is dropped, and the others
\* are kept in order.
C16_BareStringIsOnePower ==
  call.op = "migratePowers" /\ Truthy(call.args[1]) =>
    LET powers == call.args[1]
    IN IF IsListText(powers[2])
       THEN IsMigratedList(call.ret, JSONparse(powers[2])[2])
       ELSE call.ret[1] = "array" /\ Len(call.ret[2]) = 1
            /\ IsUpgraded(call.ret[2][1], powers)

\* The same with the bare strings limited to those that are not JSON; a bare
\* string that is JSON and not a list decodes to the empty list.
C16_BareStringThatIsNotJson ==
  call.op = "migratePowers" /\ Truthy(call.args[1]) =>
    LET powers == call.args[1]
    IN IF IsListText(powers[2])
       THEN IsMigratedList(call.ret, JSONparse(powers[2])[2])
       ELSE IF JSONparse(powers[2]) = SyntaxError
       THEN call.ret[1] = "array" /\ Len(call.ret[2]) = 1
            /\ IsUpgraded(call.ret[2][1], powers)
       ELSE call.ret = Arr(<<>>)

\* The power named 7 of an older version is decoded to no power.
C16_NumberNameDropped ==
  /\ call.op = "migratePowers"
  /\ call.args = <<Str(<<"7">>)>>
  /\ call.ret = Arr(<<>>)

----------------------------------------------------------------------------
(* The D&D stat block (C17). *)

\* DEFAULT_DND_STATS, of which the model keeps one ability score.
DefaultDndStats == Obj([strength |-> Num(10)])

DndKeys == {"dnd_enabled", "dnd_stats"}

\* The changes the auto-save sends after the Powers tab was used: the D&D
\* keys, with or without a change of role or is_favorite made in the same
\* interval.
DndPatches ==
  {MkObject(opt) : opt \in
     {o \in [dnd_enabled : {Absent, Bool(TRUE), Bool(FALSE)},
             dnd_stats : {Absent, DefaultDndStats},
             role : {Absent, Str(<<"y">>)},
             is_favorite : {Absent, Bool(TRUE)}] :
        o.dnd_enabled # Absent \/ o.dnd_stats # Absent}}

NextDnd ==
  \/ /\ tables.sqlite_sequence.characters = 0
     /\ CreateCharacter([name |-> Str(<<"a">>), role |-> Str(<<"x">>)])
  \/ \E patch \in DndPatches : UpdateCharacter(1, patch)
  \/ GetCharacterById(1)
  \/ Tick

SpecDnd == Init /\ [][NextDnd]_vars

\* C17: after a partial update that supplies dnd_enabled and/or dnd_stats, a
\* later getCharacterById returns the same dnd_enabled and dnd_stats, and the
\* update sets updated_at.
C17_DndPersisted ==
  (call.op = "updateCharacter" /\ call.args[1] \in DOMAIN pre.characters) =>
    LET id == call.args[1]
        patch == call.args[2]
        got == getCharacterById(tables, id)[2].character
    IN /\ \A k \in DndKeys \cap DOMAIN patch : Get(got, k) = patch[k]
       /\ tables.characters[id].updated_at = now

\* What the code does with the D&D keys: nothing. The character read back has
\* neither key, and a patch of D&D keys alone leaves the tables as they were.
C17_DndKeysIgnored ==
  (call.op = "updateCharacter" /\ call.args[1] \in DOMAIN pre.characters) =>
    LET id == call.args[1]
        patch == call.args[2]
        got == getCharacterById(tables, id)[2].character
    IN /\ \A k \in DndKeys : Get(got, k) = Undefined
       /\ DOMAIN patch \subseteq DndKeys => tables = pre
       /\ \A k \in {"role", "is_favorite"} \cap DOMAIN patch :
            tables.characters[id].updated_at = now

\* The patch of handleDnDToggle was saved at a later time and the row still
\* carries its first timestamp.
C17_ToggleWritesNothing ==
  /\ call.op = "updateCharacter"
  /\ call.args = <<1, [dnd_enabled |-> Bool(TRUE), dnd_stats |-> DefaultDndStats]>>
  /\ call.ret = Undefined
  /\ now = 1
  /\ tables.characters[1].updated_at = 0

----------------------------------------------------------------------------
(* Search: the rows found and their order (C18). *)

\* Characters that hold a letter in the name, in the role, or in a trait.
SearchCharacterPool ==
  {[name |-> Str(<<"a", "b">>)],
   [name |-> Str(<<"c">>), role |-> Str(<<"A">>)],
   [name |-> Str(<<"c">>), personality_traits |-> Arr(<<Str(<<"b">>)>>)]}

\* What is typed into the search box: a letter in either case, and a
\* character LIKE reads as a wildcard.
SearchQueries == {<<"a">>, <<"B">>, <<"_">>}

NextSearch ==
  \/ \E c \in SearchCharacterPool : CreateCharacter(c)
  \/ \E id \in CharacterIds : ArchiveCharacter(id, TRUE)
  \/ \E q \in SearchQueries, b \in BOOLEAN : SearchCharacters(q, b)
  \/ Tick

SpecSearch == Init /\ [][NextSearch]_vars

\* q occurs, letter case ignored, in the text of the column.
ColumnContains(col, q) == col[1] = "string" /\ OccursIn(q, col[2])

\* q occurs in one of the searched columns of the row.
SearchedColumnsContain(row, q) ==
  \/ ColumnContains(row.name, q)
  \/ ColumnContains(row.role, q)
  \/ ColumnContains(row.personality_traits, q)

\* The returned list holds exactly the visible rows that contain q, each
\* once; rows whose name contains q come first; within the rows whose name
\* contains q, and within the others, updated_at descends.
IsSearchResult(ret, t, q, showArchived) ==
  LET found == [i \in DOMAIN ret[2] |-> ret[2][i].id]
      InName(id) == ColumnContains(t.characters[id].name, q)
  IN /\ Range(found) =
          {id \in DOMAIN t.characters :
             /\ showArchived \/ t.characters[id].is_archived = Num(0)
             /\ SearchedColumnsContain(t.characters[id], q)}
     /\ \A i, j \in DOMAIN found : i # j => found[i] # found[j]
     /\ \A i, j \in DOMAIN found : i < j =>
          /\ InName(found[j]) => InName(found[i])
          /\ (InName(found[i]) <=> InName(found[j]))
               => t.characters[found[i]].updated_at >= t.characters[found[j]].updated_at

\* C18: search returns exactly the characters (non-archived unless
\* showArchived) in which the query occurs as a case-insensitive substring of
\* a searched column; name matches precede the others, and each group is
\* ordered by updated_at descending.
C18_SearchIsSubstringMatch ==
  call.op = "searchCharacters" =>
    IsSearchResult(call.ret, tables, call.args[1], call.args[2])

\* The same for the queries without a wildcard of LIKE.
C18_SearchWithoutWildcards ==
  (call.op = "searchCharacters" /\ call.args[1] \in {<<"a">>, <<"B">>}) =>
    IsSearchResult(call.ret, tables, call.args[1], call.args[2])

\* The query _ returned a character although no stored text holds a _.
C18_UnderscoreFindsEverything ==
  /\ call.op = "searchCharacters"
  /\ call.args[1] = <<"_">>
  /\ call.ret[2] # <<>>
  /\ \A id \in DOMAIN tables.characters :
       ~SearchedColumnsContain(tables.characters[id], <<"_">>)

\* A search put a name match that was modified earlier before a match in
\* another column that was modified later.
C18_NameMatchFirst ==
  /\ call.op = "searchCharacters"
  /\ call.args[1] = <<"a">>
  /\ Len(call.ret[2]) = 2
  /\ call.ret[2][1].updated_at < call.ret[2][2].updated_at

----------------------------------------------------------------------------
(* Association inserts and deletes (C19). *)

\* Characters, one project and one tag, and the four association calls on
\* every pair of ids.
NextAssociations ==
  \/ CreateCharacter([name |-> Str(Letter(tables.sqlite_sequence.characters + 1))])
  \/ /\ tables.sqlite_sequence.projects = 0
     /\ CreateProject([name |-> Str(<<"p">>)])
  \/ /\ tables.sqlite_sequence.tags = 0
     /\ CreateTag([name |-> Str(<<"g">>)])
  \/ \E c \in CharacterIds, p \in ProjectIds : AssignCharacterToProject(c, p)
  \/ \E c \in CharacterIds, p \in ProjectIds : RemoveCharacterFromProject(c, p)
  \/ \E c \in CharacterIds, g \in TagIds : AssignTagToCharacter(c, g)
  \/ \E c \in CharacterIds, g \in TagIds : RemoveTagFromCharacter(c, g)

SpecAssociations == Init /\ [][NextAssociations]_vars

\* C19: an association insert on a pair that already exists raises no error
\* and leaves the tables as they were, so the second of two equal inserts
\* changes nothing; a remove deletes exactly its pair and nothing else, and is
\* a no-op without error when the pair is absent.
C19_AssociationsIdempotent ==
  LET pair == <<call.args[1], call.args[2]>>
  IN /\ (call.op = "assignCharacterToProject" /\ pair \in pre.character_projects)
          => (call.ret = Undefined /\ tables = pre)
     /\ (call.op = "assignTagToCharacter" /\ pair \in pre.character_tags)
          => (call.ret = Undefined /\ tables = pre)
     /\ call.op = "removeCharacterFromProject"
          => /\ call.ret = Undefined
             /\ tables = [pre EXCEPT !.character_projects = @ \ {pair}]
             /\ pair \notin pre.character_projects => tables = pre
     /\ call.op = "removeTagFromCharacter"
          => /\ call.ret = Undefined
             /\ tables = [pre EXCEPT !.character_tags = @ \ {pair}]
             /\ pair \notin pre.character_tags => tables = pre

\* A character was assigned to a project it was already in, while another
\* character is in the project too and a tag is assigned.
C19_Witness ==
  /\ call.op = "assignCharacterToProject"
  /\ <<call.args[1], call.args[2]>> \in pre.character_projects
  /\ Cardinality(tables.character_projects) = 2
  /\ tables.character_tags # {}

----------------------------------------------------------------------------
(* The state cache: useStore over the database module. An action of the     *)
(* store runs to its end before the next one starts.                        *)

\* The letters in the order of their codes.
Alphabet == UpperCase \o LowerCase

CharCode(c) == CHOOSE i \in DOMAIN Alphabet : Alphabet[i] = c

\* ORDER BY name of two names of letters: s sorts before t.
RECURSIVE NameBefore(_, _)
NameBefore(s, t) ==
  IF t = <<>> THEN FALSE
  ELSE IF s = <<>> THEN TRUE
  ELSE IF Head(s) # Head(t) THEN CharCode(Head(s)) < CharCode(Head(t))
  ELSE NameBefore(Tail(s), Tail(t))

\* SELECT * FROM projects ORDER BY updated_at DESC; rows that tie come in
\* rowid order.
getAllProjects(t) ==
  LET ids == DOMAIN t.projects
      Before(x, y) ==
        \/ t.projects[x].updated_at > t.projects[y].updated_at
        \/ t.projects[x].updated_at = t.projects[y].updated_at /\ x < y
      at == [i \in 1..Cardinality(ids) |->
               CHOOSE x \in ids : Cardinality({y \in ids : Before(y, x)}) = i - 1]
  IN Arr([i \in DOMAIN at |-> [id |-> at[i], row |-> t.projects[at[i]]]])

\* SELECT * FROM tags ORDER BY name
getAllTags(t) ==
  LET ids == DOMAIN t.tags
      Before(x, y) == NameBefore(t.tags[x].name[2], t.tags[y].name[2])
      at == [i \in 1..Cardinality(ids) |->
               CHOOSE x \in ids : Cardinality({y \in ids : Before(y, x)}) = i - 1]
  IN Arr([i \in DOMAIN at |-> [id |-> at[i], row |-> t.tags[at[i]]]])

\* JOIN character_projects cp ON c.id = cp.character_id WHERE cp.project_id = ?
\* [AND c.is_archived = 0] ORDER BY c.updated_at DESC
getCharactersByProject(t, projectId, showArchived) ==
  LET ids == {i \in DOMAIN t.characters :
                /\ <<i, projectId>> \in t.character_projects
                /\ Visible(t.characters[i], showArchived)}
  IN ParsedRows(t, OrderRows(t, ids, [i \in ids |-> 0]))

\* What an action of the store leaves: the tables, the store, and what its
\* promise resolves to (Thrown: it rejects).
Outcome(t, s, r) == [tables |-> t, store |-> s, ret |-> r]

\* The rest of a handler after `await db.x(...)`: skipped when the call throws.
AfterAwait(done, s, rest) ==
  IF done.ret = Thrown THEN Outcome(done.tables, s, Thrown)
  ELSE Outcome(done.tables, rest, done.ret)

refreshCharacters(t, s) ==
  LET filter == s.filter
      characters ==
        IF filter.search # <<>> THEN searchCharacters(t, filter.search, FALSE)
        ELSE IF Truthy(filter.projectId)
        THEN getCharactersByProject(t, filter.projectId[2], FALSE)
        ELSE getAllCharacters(t, FALSE)
  IN IF characters = Thrown THEN s ELSE [s EXCEPT !.characters = characters]

refreshProjects(t, s) == [s EXCEPT !.projects = getAllProjects(t)]

refreshTags(t, s) == [s EXCEPT !.tags = getAllTags(t)]

\* The ids selected last, latest first.
RecentLimit == 5

\* The list without the filter: the id is put in front and stays where it was.
newRecentUnfiltered(recentCharacterIds, id) ==
  LET moved == <<id>> \o recentCharacterIds
  IN SubSeq(moved, 1, IF Len(moved) < RecentLimit THEN Len(moved) ELSE RecentLimit)

\* [id, ...recentCharacterIds.filter((i) => i !== id)].slice(0, 5)
newRecent(recentCharacterIds, id) ==
  LET moved == <<id>> \o SelectSeq(recentCharacterIds, LAMBDA i : i # id)
  IN SubSeq(moved, 1, IF Len(moved) < RecentLimit THEN Len(moved) ELSE RecentLimit)

\* The set(...) of selectCharacter once getCharacterById has answered
\* `character`; a rejection ends the call before it.
selectCharacterSet(s, id, character) ==
  IF character \in {Null, Thrown} THEN s
  ELSE [s EXCEPT !.selectedCharacter = character,
                 !.recentCharacterIds = newRecent(@, id),
                 !.isCharacterModalOpen = TRUE]

\* selectCharacter(id) for a number id.
selectCharacter(t, s, id) == selectCharacterSet(s, id, getCharacterById(t, id))

\* selectCharacter(null), setCharacterModalOpen(false)
selectCharacterNull(s) ==
  [s EXCEPT !.selectedCharacter = Null, !.isCharacterModalOpen = FALSE]

\* selectedCharacter?.id === id
IsSelected(s, id) ==
  s.selectedCharacter # Null /\ s.selectedCharacter[2].character.id = id

\* if (selectedCharacter?.id === id) await get().selectCharacter(id)
Reselect(t, s, id) == IF IsSelected(s, id) THEN selectCharacter(t, s, id) ELSE s

\* if (selectedCharacter?.id === id) set({ selectedCharacter: null, ... })
Deselect(s, id) == IF IsSelected(s, id) THEN selectCharacterNull(s) ELSE s

useStore_createCharacter(t, s, character, clock) ==
  LET done == createCharacter(t, character, clock)
  IN AfterAwait(done, s, refreshCharacters(done.tables, s))

useStore_updateCharacter(t, s, id, character, clock) ==
  LET done == updateCharacter(t, id, character, clock)
  IN AfterAwait(done, s, Reselect(done.tables, refreshCharacters(done.tables, s), id))

useStore_deleteCharacter(t, s, id) ==
  LET done == deleteCharacter(t, id)
  IN AfterAwait(done, s, refreshCharacters(done.tables, Deselect(s, id)))

useStore_toggleFavorite(t, s, id, clock) ==
  LET cached == s.characters[2]
  IN IF \A i \in DOMAIN cached : cached[i].id # id THEN Outcome(t, s, Undefined)
     ELSE LET character == cached[CHOOSE i \in DOMAIN cached : cached[i].id = id]
              done == updateCharacter(t, id, [is_favorite |-> Bool(~character.is_favorite[2])],
                                      clock)
          IN AfterAwait(done, s, refreshCharacters(done.tables, s))

useStore_archiveCharacter(t, s, id, archived, clock) ==
  LET done == archiveCharacter(t, id, archived, clock)
  IN AfterAwait(done, s, refreshCharacters(done.tables, Deselect(s, id)))

useStore_createProject(t, s, project, clock) ==
  LET done == createProject(t, project, clock)
  IN AfterAwait(done, s, refreshProjects(done.tables, s))

useStore_updateProject(t, s, id, project, clock) ==
  LET done == updateProject(t, id, project, clock)
  IN AfterAwait(done, s, refreshProjects(done.tables, s))

useStore_deleteProject(t, s, id) ==
  LET done == deleteProject(t, id)
      s1 == IF s.filter.projectId = Num(id) THEN [s EXCEPT !.filter.projectId = Null]
            ELSE s
  IN AfterAwait(done, s, refreshCharacters(done.tables, refreshProjects(done.tables, s1)))

useStore_createTag(t, s, tag) ==
  LET done == createTag(t, tag)
  IN AfterAwait(done, s, refreshTags(done.tables, s))

useStore_updateTag(t, s, id, tag) ==
  LET done == updateTag(t, id, tag)
  IN AfterAwait(done, s, refreshTags(done.tables, s))

useStore_deleteTag(t, s, id) ==
  LET done == deleteTag(t, id)
      s1 == IF id \in Range(s.filter.tagIds)
            THEN [s EXCEPT !.filter.tagIds = SelectSeq(@, LAMBDA g : g # id)]
            ELSE s
  IN AfterAwait(done, s, refreshTags(done.tables, s1))

useStore_assignCharacterToProject(t, s, characterId, projectId) ==
  LET done == assignCharacterToProject(t, characterId, projectId)
  IN AfterAwait(done, s, Reselect(done.tables, s, characterId))

useStore_removeCharacterFromProject(t, s, characterId, projectId) ==
  LET done == removeCharacterFromProject(t, characterId, projectId)
  IN AfterAwait(done, s, refreshCharacters(done.tables, Reselect(done.tables, s, characterId)))

useStore_assignTagToCharacter(t, s, characterId, tagId) ==
  LET done == assignTagToCharacter(t, characterId, tagId)
  IN AfterAwait(done, s, Reselect(done.tables, s, characterId))

useStore_removeTagFromCharacter(t, s, characterId, tagId) ==
  LET done == removeTagFromCharacter(t, characterId, tagId)
  IN AfterAwait(done, s, Reselect(done.tables, s, characterId))

\* setFilter(filter), with the refreshCharacters it starts run to its end.
useStore_setFilter(t, s, filter) ==
  LET newFilter == [k \in DOMAIN s.filter |->
                      IF k \in DOMAIN filter THEN filter[k] ELSE s.filter[k]]
  IN Outcome(t, refreshCharacters(t, [s EXCEPT !.filter = newFilter]), Undefined)

\* An action of the store with `args` that ends as `r` says.
StoreDo(op, args, r) ==
  \E done \in {r} :
    /\ tables' = done.tables
    /\ store' = done.store
    /\ call' = [op |-> op, args |-> args, ret |-> done.ret]
    /\ pre' = tables
    /\ UNCHANGED <<now, connection, frontend>>

StoreCreateCharacter(character) ==
  /\ tables.sqlite_sequence.characters < MaxCharacters
  /\ StoreDo("useStore.createCharacter", <<character>>,
             useStore_createCharacter(tables, store, character, now))

StoreUpdateCharacter(id, character) ==
  StoreDo("useStore.updateCharacter", <<id, character>>,
          useStore_updateCharacter(tables, store, id, character, now))

StoreDeleteCharacter(id) ==
  StoreDo("useStore.deleteCharacter", <<id>>, useStore_deleteCharacter(tables, store, id))

StoreToggleFavorite(id) ==
  StoreDo("useStore.toggleFavorite", <<id>>, useStore_toggleFavorite(tables, store, id, now))

StoreArchiveCharacter(id, archived) ==
  StoreDo("useStore.archiveCharacter", <<id, archived>>,
          useStore_archiveCharacter(tables, store, id, archived, now))

StoreCreateProject(project) ==
  /\ tables.sqlite_sequence.projects < MaxProjects
  /\ StoreDo("useStore.createProject", <<project>>,
             useStore_createProject(tables, store, project, now))

StoreUpdateProject(id, project) ==
  StoreDo("useStore.updateProject", <<id, project>>,
          useStore_updateProject(tables, store, id, project, now))

StoreDeleteProject(id) ==
  StoreDo("useStore.deleteProject", <<id>>, useStore_deleteProject(tables, store, id))

StoreCreateTag(tag) ==
  /\ tables.sqlite_sequence.tags < MaxTags
  /\ StoreDo("useStore.createTag", <<tag>>, useStore_createTag(tables, store, tag))

StoreUpdateTag(id, tag) ==
  StoreDo("useStore.updateTag", <<id, tag>>, useStore_updateTag(tables, store, id, tag))

StoreDeleteTag(id) ==
  StoreDo("useStore.deleteTag", <<id>>, useStore_deleteTag(tables, store, id))

StoreAssignCharacterToProject(characterId, projectId) ==
  StoreDo("useStore.assignCharacterToProject", <<characterId, projectId>>,
          useStore_assignCharacterToProject(tables, store, characterId, projectId))

StoreRemoveCharacterFromProject(characterId, projectId) ==
  StoreDo("useStore.removeCharacterFromProject", <<characterId, projectId>>,
          useStore_removeCharacterFromProject(tables, store, characterId, projectId))

StoreAssignTagToCharacter(characterId, tagId) ==
  StoreDo("useStore.assignTagToCharacter", <<characterId, tagId>>,
          useStore_assignTagToCharacter(tables, store, characterId, tagId))

StoreRemoveTagFromCharacter(characterId, tagId) ==
  StoreDo("useStore.removeTagFromCharacter", <<characterId, tagId>>,
          useStore_removeTagFromCharacter(tables, store, characterId, tagId))

StoreSelectCharacter(id) ==
  StoreDo("useStore.selectCharacter", <<id>>,
          Outcome(tables, selectCharacter(tables, store, id), Undefined))

StoreSelectNull ==
  StoreDo("useStore.selectCharacter(null)", <<>>,
          Outcome(tables, selectCharacterNull(store), Undefined))

StoreSetCharacterModalOpenFalse ==
  StoreDo("useStore.setCharacterModalOpen", <<FALSE>>,
          Outcome(tables, selectCharacterNull(store), Undefined))

StoreSetFilter(filter) ==
  StoreDo("useStore.setFilter", <<filter>>, useStore_setFilter(tables, store, filter))

\* One character, one project and one tag; every mutating action of the store
\* on them, selectCharacter, and setFilter on the project.
NextStore ==
  \/ /\ tables.sqlite_sequence.characters = 0
     /\ StoreCreateCharacter([name |-> Str(<<"a">>)])
  \/ /\ tables.sqlite_sequence.projects = 0
     /\ StoreCreateProject([name |-> Str(<<"p">>)])
  \/ /\ tables.sqlite_sequence.tags = 0
     /\ StoreCreateTag([name |-> Str(<<"g">>)])
  \/ StoreSelectCharacter(1)
  \/ StoreUpdateCharacter(1, [role |-> Str(<<"y">>)])
  \/ StoreDeleteCharacter(1)
  \/ StoreToggleFavorite(1)
  \/ StoreArchiveCharacter(1, TRUE)
  \/ StoreUpdateProject(1, [name |-> Str(<<"q">>)])
  \/ StoreDeleteProject(1)
  \/ StoreUpdateTag(1, [name |-> Str(<<"h">>), color |-> Str(DefaultColor)])
  \/ StoreDeleteTag(1)
  \/ StoreAssignCharacterToProject(1, 1)
  \/ StoreRemoveCharacterFromProject(1, 1)
  \/ StoreAssignTagToCharacter(1, 1)
  \/ StoreRemoveTagFromCharacter(1, 1)
  \/ \E projectId \in {Null, Num(1)} : StoreSetFilter([projectId |-> projectId])

SpecStore == Init /\ [][NextStore]_vars

\* The mutating actions of the store.
StoreMutations ==
  {"useStore.createCharacter", "useStore.updateCharacter", "useStore.deleteCharacter",
   "useStore.toggleFavorite", "useStore.archiveCharacter",
   "useStore.createProject", "useStore.updateProject", "useStore.deleteProject",
   "useStore.createTag", "useStore.updateTag", "useStore.deleteTag",
   "useStore.assignCharacterToProject", "useStore.removeCharacterFromProject",
   "useStore.assignTagToCharacter", "useStore.removeTagFromCharacter"}

\* What storage returns for the filter: the search, the project, or all.
StoredForFilter(t, filter) ==
  IF filter.search # <<>> THEN searchCharacters(t, filter.search, FALSE)
  ELSE IF filter.projectId # Null
  THEN getCharactersByProject(t, filter.projectId[2], FALSE)
  ELSE getAllCharacters(t, FALSE)

CharactersFresh == store.characters = StoredForFilter(tables, store.filter)

ProjectsAndTagsFresh ==
  /\ store.projects = getAllProjects(tables)
  /\ store.tags = getAllTags(tables)

\* selectedCharacter, when set, carries the projects, tags and relationships
\* stored for it.
SelectionFresh ==
  store.selectedCharacter # Null =>
    LET selected == store.selectedCharacter[2]
        stored == getCharacterById(tables, selected.character.id)
    IN /\ stored # Null
       /\ selected.projects = stored[2].projects
       /\ selected.tags = stored[2].tags
       /\ selected.relationships = stored[2].relationships

\* C20: when a mutating action of the store has completed and no other is in
\* flight, the cached characters equal what storage returns for the filter,
\* the cached projects and tags equal the stored ones, and selectedCharacter
\* carries the projects, tags and relationships stored for it.
C20_CacheFreshAfterMutation ==
  call.op \in StoreMutations =>
    (CharactersFresh /\ ProjectsAndTagsFresh /\ SelectionFresh)

\* The part that holds: projects and tags are fresh after every mutating
\* action, the characters after the actions that end with refreshCharacters,
\* and the selection after the four association actions when they do not
\* reject.
C20_RefreshedParts ==
  /\ call.op \in StoreMutations => ProjectsAndTagsFresh
  /\ call.op \in {"useStore.createCharacter", "useStore.updateCharacter",
                  "useStore.deleteCharacter", "useStore.archiveCharacter",
                  "useStore.deleteProject", "useStore.removeCharacterFromProject"}
       => CharactersFresh
  /\ (/\ call.op \in {"useStore.assignCharacterToProject",
                     "useStore.removeCharacterFromProject",
                     "useStore.assignTagToCharacter", "useStore.removeTagFromCharacter"}
      /\ call.ret # Thrown)
       => SelectionFresh

\* deleteTag has completed and the selected character still carries the tag.
C20_DeletedTagStillSelected ==
  /\ call.op = "useStore.deleteTag"
  /\ tables.tags = <<>>
  /\ store.selectedCharacter # Null
  /\ store.selectedCharacter[2].tags # {}

\* assignCharacterToProject has completed under the filter on that project
\* and the cached list lacks the character.
C20_AssignedNotListed ==
  /\ call.op = "useStore.assignCharacterToProject"
  /\ call.ret = Undefined
  /\ store.filter.projectId = Num(1)
  /\ store.characters = Arr(<<>>)
  /\ <<1, 1>> \in tables.character_projects
  /\ tables.characters[1].is_archived = Num(0)

----------------------------------------------------------------------------
(* getDb and the schema (C25). *)

\* The runs of initializeSchema that have finished: every run is awaited by
\* the caller that started it, which stands at "schema" until it resolves.
SchemaRunsFinished ==
  inits - Cardinality({c \in Callers : getDbCalls[c].pc = "schema"})

\* C25: in every interleaving of getDb callers, a caller receives the handle
\* only after the statements of initializeSchema have finished.
C25_HandleAfterSchema ==
  \A c \in Callers : getDbCalls[c].pc = "returned" => SchemaRunsFinished >= 1

\* What holds: a caller that found db null receives the handle only after
\* the run of initializeSchema it started has finished; a caller that found
\* db set receives it at once.
C25_OwnSchemaRunAwaited ==
  \A c \in Callers :
    /\ (getDbCalls[c].pc = "returned" /\ getDbCalls[c].loaded # Null)
         => SchemaRunsFinished >= 1
    /\ getDbCalls[c].pc \in {"load", "schema"} => getDbCalls[c].returned = Null

\* A caller holds the handle while the only run of initializeSchema is still
\* in progress.
C25_HandleDuringSchema ==
  /\ inits = 1
  /\ SchemaRunsFinished = 0
  /\ \E c \in Callers : getDbCalls[c].pc = "returned" /\ getDbCalls[c].loaded = Null

----------------------------------------------------------------------------
(* toggleFavorite under calls that overlap (C24). *)

Togglers == 1..MaxTogglers

\* get().characters.find((c) => c.id === id) finds a character.
IsCached(s, id) == \E i \in DOMAIN s.characters[2] : s.characters[2][i].id = id

\* The character it finds.
CachedCharacter(s, id) ==
  s.characters[2][CHOOSE i \in DOMAIN s.characters[2] : s.characters[2][i].id = id]

\* toggledFavorite when it writes the cached flag as it is.
toggledFavoriteSame(s, id) == CachedCharacter(s, id).is_favorite

\* !character.is_favorite of toggleFavorite
toggledFavorite(s, id) == Bool(~CachedCharacter(s, id).is_favorite[2])

\* toggleFavorite(id) is called: it runs to `await db.updateCharacter(...)`,
\* whose argument is built from the cached list as it is now; without the
\* character in the list it returns.
ToggleFavoriteCall(k, id) ==
  /\ toggleCalls.calls[k].pc = "idle"
  /\ toggleCalls' =
       [toggleCalls EXCEPT !.calls[k] =
          IF ~IsCached(store, id)
          THEN [@ EXCEPT !.pc = "done", !.id = id, !.epoch = toggleCalls.refreshes]
          ELSE [pc |-> "update",
                id |-> id,
                seen |-> CachedCharacter(store, id).is_favorite,
                stored |-> IF id \in DOMAIN tables.characters
                           THEN tables.characters[id].is_favorite ELSE Null,
                wrote |-> toggledFavorite(store, id),
                epoch |-> toggleCalls.refreshes]]
  /\ UNCHANGED <<tables, now, call, pre, connection, store, modal, refreshCalls>>

\* The UPDATE of db.updateCharacter runs; toggleFavorite goes on to
\* `await get().refreshCharacters()`.
ToggleFavoriteUpdated(k) ==
  /\ toggleCalls.calls[k].pc = "update"
  /\ \E done \in {updateCharacter(tables, toggleCalls.calls[k].id,
                                  [is_favorite |-> toggleCalls.calls[k].wrote], now)} :
       /\ tables' = done.tables
       /\ call' = [op |-> "updateCharacter",
                   args |-> <<toggleCalls.calls[k].id,
                              [is_favorite |-> toggleCalls.calls[k].wrote]>>,
                   ret |-> done.ret,
                   by |-> k]
       /\ pre' = tables
       /\ toggleCalls' = [toggleCalls EXCEPT !.calls[k].pc =
                            IF done.ret = Thrown THEN "done" ELSE "refresh"]
  /\ UNCHANGED <<now, connection, store, modal, refreshCalls>>

\* refreshCharacters resolves: the list is set and toggleFavorite returns.
ToggleFavoriteRefreshed(k) ==
  /\ toggleCalls.calls[k].pc = "refresh"
  /\ store' = refreshCharacters(tables, store)
  /\ toggleCalls' = [toggleCalls EXCEPT !.calls[k].pc = "done",
                                        !.refreshes = @ + 1]
  /\ UNCHANGED <<tables, now, call, pre, connection, modal, refreshCalls>>

\* One character, listed or archived, and calls of toggleFavorite on it and
\* on an id that is not in the list.
NextToggle ==
  \/ /\ tables.sqlite_sequence.characters = 0
     /\ StoreCreateCharacter([name |-> Str(<<"a">>)])
  \/ /\ \A k \in Togglers : toggleCalls.calls[k].pc = "idle"
     /\ StoreArchiveCharacter(1, TRUE)
  \/ \E k \in Togglers, id \in {1, 2} : ToggleFavoriteCall(k, id)
  \/ \E k \in Togglers : ToggleFavoriteUpdated(k)
  \/ \E k \in Togglers : ToggleFavoriteRefreshed(k)

SpecToggle == Init /\ [][NextToggle]_vars

\* C24: toggleFavorite(id) writes the negation of is_favorite as the cached
\* list held it at call time, and nothing when id is not in the list; so two
\* calls for one id that both start before a refresh has completed write the
\* same value, and after the two of them the stored flag is flipped once.
C24_ToggleWritesNegatedCache ==
  /\ \A k \in Togglers :
       LET c == toggleCalls.calls[k]
       IN /\ (c.pc # "idle" /\ c.seen = Null) => (c.pc = "done" /\ c.wrote = Null)
          /\ (c.pc # "idle" /\ c.seen # Null) => c.wrote = Bool(~c.seen[2])
  /\ (call.op = "updateCharacter" /\ "by" \in DOMAIN call) =>
       LET c == toggleCalls.calls[call.by]
       IN /\ call.args = <<c.id, [is_favorite |-> Bool(~c.seen[2])]>>
          /\ tables.characters[c.id].is_favorite = Num(IF c.seen[2] THEN 0 ELSE 1)
  /\ \A k \in Togglers : \A j \in Togglers \ {k} :
       LET c == toggleCalls.calls[k]
           d == toggleCalls.calls[j]
       IN (/\ c.wrote # Null /\ d.wrote # Null
           /\ c.id = d.id /\ c.epoch = d.epoch)
            => /\ c.wrote = d.wrote
               /\ (/\ c.pc = "done" /\ d.pc = "done"
                   /\ \A m \in Togglers \ {k, j} : toggleCalls.calls[m].wrote = Null)
                    => /\ tables.characters[c.id].is_favorite
                            = Num(IF c.wrote[2] THEN 1 ELSE 0)
                       /\ tables.characters[c.id].is_favorite
                            # Num(IF c.seen[2] THEN 1 ELSE 0)

\* Two calls overlapped and both have returned: the flag that was 0 is 1.
C24_Witness ==
  /\ \A k \in {1, 2} :
       /\ toggleCalls.calls[k].pc = "done"
       /\ toggleCalls.calls[k].wrote = Bool(TRUE)
       /\ toggleCalls.calls[k].epoch = 0
  /\ \E k \in {1, 2} : toggleCalls.calls[k].stored = Num(0)
  /\ toggleCalls.refreshes = 2
  /\ tables.characters[1].is_favorite = Num(1)

----------------------------------------------------------------------------
(* The recently selected characters. *)

\* MaxSelectable characters are created first; then any of them, and one id
\* past them, is selected, the selection is cleared, and character 1 is
\* deleted.
NextRecent ==
  \/ /\ tables.sqlite_sequence.characters < MaxSelectable
     /\ StoreDo("useStore.createCharacter", <<[name |-> Str(<<"a">>)]>>,
                useStore_createCharacter(tables, store, [name |-> Str(<<"a">>)], now))
  \/ /\ tables.sqlite_sequence.characters = MaxSelectable
     /\ \/ \E id \in 1..(MaxSelectable + 1) : StoreSelectCharacter(id)
        \/ StoreSelectNull
        \/ StoreDeleteCharacter(1)

SpecRecent == Init /\ [][NextRecent]_vars

\* The list `l` without `id`, in the order of `l`.
Without(l, id) == SelectSeq(l, LAMBDA i : i # id)

\* One selectCharacter call, from the store before it to the store after it.
RecentStep ==
  /\ call'.op = "useStore.selectCharacter" =>
       LET id == call'.args[1]
           rest == Without(store.recentCharacterIds, id)
           recent == store'.recentCharacterIds
       IN IF id \in DOMAIN tables.characters
          THEN /\ recent[1] = id
               /\ Len(recent) = IF Len(rest) < 5 THEN Len(rest) + 1 ELSE 5
               /\ \A i \in 2..Len(recent) : recent[i] = rest[i - 1]
               /\ store'.selectedCharacter = getCharacterById(tables, id)
               /\ store'.isCharacterModalOpen
          ELSE /\ store'.selectedCharacter = store.selectedCharacter
               /\ store'.recentCharacterIds = store.recentCharacterIds
               /\ store'.isCharacterModalOpen = store.isCharacterModalOpen
  /\ call'.op = "useStore.selectCharacter(null)" =>
       /\ store'.selectedCharacter = Null
       /\ ~store'.isCharacterModalOpen
       /\ store'.recentCharacterIds = store.recentCharacterIds

\* C30: recentCharacterIds holds at most 5 ids and none twice; a successful
\* selectCharacter(id) puts id in front of the other ids, which keep their
\* order, so the list is in order of the most recent successful selection;
\* selectCharacter of an id that does not exist changes nothing of
\* selectedCharacter, recentCharacterIds and isCharacterModalOpen; and
\* selectCharacter(null) clears the selection and closes the modal with
\* recentCharacterIds as it was.
C30_RecentCharacterIds ==
  /\ [](/\ Len(store.recentCharacterIds) <= 5
        /\ \A i, j \in DOMAIN store.recentCharacterIds :
             store.recentCharacterIds[i] = store.recentCharacterIds[j] => i = j)
  /\ [][RecentStep]_vars

\* Six characters selected one after the other, the first of them deleted
\* since: the list holds the last five, and the first one is gone from it.
C30_Witness ==
  /\ store.recentCharacterIds = <<6, 5, 4, 3, 2>>
  /\ 1 \notin DOMAIN tables.characters
  /\ call.op = "useStore.selectCharacter"
  /\ call.args = <<1>>

----------------------------------------------------------------------------
(* How often a stored relationship appears in getCharacterById.             *)

\* The entries of getCharacterById(X).relationships that are row r.
EntriesOf(got, r) == {i \in DOMAIN got.relationships : got.relationships[i].id = r}

\* C29: in getCharacterById(X).relationships every stored row that involves X
\* appears exactly once, a row with character_a_id = character_b_id = X
\* included, and there are as many entries as stored rows with X as an
\* endpoint.
C29_EachRowOnce ==
  (call.op = "getCharacterById" /\ call.ret[1] = "object") =>
    LET X == call.args[1]
        got == call.ret[2]
        rows == {r \in DOMAIN tables.relationships : Involves(tables, r, X)}
    IN /\ \A r \in rows : Cardinality(EntriesOf(got, r)) = 1
       /\ Len(got.relationships) = Cardinality(rows)

\* A row between two different characters appears once for either of them, and
\* a row from X to X appears twice: once from each of the two SELECTs.
C29_OncePerEndpoint ==
  (call.op = "getCharacterById" /\ call.ret[1] = "object") =>
    LET X == call.args[1]
        got == call.ret[2]
        rows == {r \in DOMAIN tables.relationships : Involves(tables, r, X)}
        self == {r \in rows : tables.relationships[r].character_a_id
                                = tables.relationships[r].character_b_id}
    IN /\ \A r \in rows \ self : Cardinality(EntriesOf(got, r)) = 1
       /\ \A r \in self : Cardinality(EntriesOf(got, r)) = 2
       /\ Len(got.relationships) = Cardinality(rows) + Cardinality(self)

\* One stored row, from character 1 to character 1, and two entries for it.
C29_SelfRelationshipTwice ==
  /\ call.op = "getCharacterById"
  /\ call.args = <<1>>
  /\ call.ret[1] = "object"
  /\ DOMAIN tables.relationships = {1}
  /\ tables.relationships[1].character_a_id = 1
  /\ tables.relationships[1].character_b_id = 1
  /\ Len(call.ret[2].relationships) = 2

----------------------------------------------------------------------------
(* The flags and the fields of a created character.                         *)

\* const { id, created_at, updated_at, ...rest } = character;
\* createCharacter({ ...rest, name: `${character.name} (Copy)` })
DuplicateOf(character) ==
  [k \in DOMAIN character \ {"id", "created_at", "updated_at"} |->
     IF k = "name" THEN Str(character.name[2] \o <<" ", "(", "C", "o", "p", "y", ")">>) ELSE character[k]]

\* CharacterCard.handleDuplicate on the card of character id; the cards show
\* the parsed rows of the characters that are not archived.
HandleDuplicate(id) ==
  /\ tables.sqlite_sequence.characters < MaxCharacters
  /\ id \in DOMAIN tables.characters
  /\ Visible(tables.characters[id], FALSE)
  /\ ~ParseThrows(tables.characters[id])
  /\ \E given \in {DuplicateOf(parseCharacter(id, tables.characters[id]))} :
       \E done \in {createCharacter(tables, given, now)} :
         /\ tables' = done.tables
         /\ call' = [op |-> "handleDuplicate", args |-> <<id>>, ret |-> done.ret,
                     given |-> given]
         /\ pre' = tables
         /\ UNCHANGED <<now, connection, store, frontend>>

\* Records with and without a name, with an empty role and no list, a role
\* and an empty list, or a role and a one-item list, and with the flags absent
\* or set, as a boolean and as the number that is stored.
FlaggedCharacters ==
  {MkObject([name |-> n, role |-> rl[1], personality_traits |-> rl[2],
             is_favorite |-> f[1], is_archived |-> f[2]]) :
     n \in {Absent, Str(<<>>), Str(<<"a">>)},
     rl \in {<<Str(<<>>), Absent>>, <<Str(<<"x">>), Arr(<<>>)>>,
             <<Str(<<"x">>), Arr(<<Str(<<"t">>)>>)>>},
     f \in {<<Absent, Absent>>, <<Bool(TRUE), Num(1)>>}}

\* Backup documents of one or two characters that carry the flags.
FlaggedDocuments ==
  {[characters |-> b] :
     b \in {<<[name |-> Str(<<"b">>), is_favorite |-> Bool(TRUE),
               is_archived |-> Bool(TRUE), role |-> Str(<<"x">>),
               personality_traits |-> Arr(<<Str(<<"t">>)>>)]>>,
            <<[name |-> Str(<<"b">>), is_archived |-> Num(1)],
              [name |-> Str(<<"c">>), is_favorite |-> Bool(TRUE), role |-> Str(<<>>)]>>}}

NextFlags ==
  \/ \E c \in FlaggedCharacters : CreateCharacter(c)
  \/ \E data \in FlaggedDocuments : ImportData(data, NoFailures)
  \/ \E id \in CharacterIds : HandleDuplicate(id)
  \/ UpdateCharacter(1, [is_favorite |-> Bool(TRUE)])
  \/ ArchiveCharacter(1, TRUE)

SpecFlags == Init /\ [][NextFlags]_vars

\* The rows the last call made, each with the record createCharacter got.
CreatedWith ==
  LET first == pre.sqlite_sequence.characters + 1
  IN CASE call.op = "createCharacter" /\ call.ret # Thrown ->
            {<<first, call.args[1]>>}
       [] call.op = "handleDuplicate" /\ call.ret # Thrown ->
            {<<first, call.given>>}
       [] call.op = "importData" ->
            LET made == SortedSeq(Created("characters"))
            IN {<<first + n - 1, call.args[1].characters[made[n]]>> : n \in DOMAIN made}
       [] OTHER -> {}

\* The created row has both flags 0.
FlagsCleared(row) == row.is_favorite = Num(0) /\ row.is_archived = Num(0)

\* The list column holds a text that decodes to the list that was given.
ListStoredAsGiven(row, given) ==
  "personality_traits" \in DOMAIN given =>
    /\ row.personality_traits[1] = "string"
    /\ JSONparse(row.personality_traits[2]) = given.personality_traits

\* C28: every row created by createCharacter, by importData or by the card's
\* Duplicate action is stored with is_favorite = 0 and is_archived = 0 whatever
\* flags the record carries, and every other text or list field the record
\* supplies is stored as it was given.
C28_CreatedAsGiven ==
  \A made \in CreatedWith :
    LET row == tables.characters[made[1]]
        given == made[2]
    IN /\ FlagsCleared(row)
       /\ \A k \in {"name", "role"} \cap DOMAIN given : row[k] = given[k]
       /\ ListStoredAsGiven(row, given)

\* C28, with the empty text: the flags are 0 whatever the record carries, a
\* supplied text that is not empty and a supplied list are stored as given, an
\* empty role is stored as NULL and an empty name as "Unnamed Character".
C28_CreatedFlagsCleared ==
  \A made \in CreatedWith :
    LET row == tables.characters[made[1]]
        given == made[2]
    IN /\ FlagsCleared(row)
       /\ \A k \in {"name", "role"} \cap DOMAIN given :
            IF given[k] # Str(<<>>) THEN row[k] = given[k]
            ELSE row[k] = (IF k = "name" THEN Str(UnnamedCharacter) ELSE Null)
       /\ ListStoredAsGiven(row, given)

\* The card of a favorite is duplicated: the copy carries is_favorite: true
\* into createCharacter and is stored with the flag 0, the original keeps 1.
C28_Witness ==
  /\ call.op = "handleDuplicate"
  /\ call.given.is_favorite = Bool(TRUE)
  /\ call.given.personality_traits = Arr(<<Str(<<"t">>)>>)
  /\ tables.characters[call.args[1]].is_favorite = Num(1)
  /\ tables.characters[pre.sqlite_sequence.characters + 1].is_favorite = Num(0)
  /\ tables.characters[pre.sqlite_sequence.characters + 1].name = Str(<<"a", " ", "(", "C", "o", "p", "y", ")">>)

----------------------------------------------------------------------------
(* Overlapping runs of refreshCharacters.                                   *)

\* setFilter({ search }): the filter is set and run number started + 1 of
\* refreshCharacters begins; it reads the filter and awaits its query.
SetFilterCall(search) ==
  /\ refreshCalls.started < MaxRefreshes
  /\ \E k \in {refreshCalls.started + 1} :
       /\ store' = [store EXCEPT !.filter.search = search]
       /\ refreshCalls' = [refreshCalls EXCEPT
                             !.runs[k] = [pc |-> "query", search |-> search],
                             !.started = k]
       /\ call' = [op |-> "useStore.setFilter", args |-> <<[search |-> search]>>,
                   ret |-> Undefined]
  /\ pre' = tables
  /\ UNCHANGED <<tables, now, connection, toggleCalls, modal>>

\* The query of run k resolves and the run sets the list: the one for the
\* filter it read when it began.
RefreshCharactersSet(k) ==
  /\ refreshCalls.runs[k].pc = "query"
  /\ \E characters \in {StoredForFilter(tables, [store.filter EXCEPT
                                                   !.search = refreshCalls.runs[k].search])} :
       store' = [store EXCEPT !.characters = characters]
  /\ refreshCalls' = [refreshCalls EXCEPT
                        !.runs[k].pc = "done",
                        !.inOrder = @ /\ \A j \in 1..(k - 1) :
                                            refreshCalls.runs[j].pc # "query"]
  /\ call' = [op |-> "refreshCharacters", args |-> <<k>>, ret |-> Undefined]
  /\ pre' = tables
  /\ UNCHANGED <<tables, now, connection, toggleCalls, modal>>

\* The characters are created first; then the search text is set up to
\* MaxRefreshes times, and the runs this starts resolve in any order.
NextRefresh ==
  \/ /\ refreshCalls.started = 0
     /\ StoreCreateCharacter([name |-> Str(Letter(tables.sqlite_sequence.characters + 1))])
  \/ /\ tables.sqlite_sequence.characters > 0
     /\ \E search \in {<<>>, <<"a">>, <<"b">>} : SetFilterCall(search)
  \/ \E k \in 1..MaxRefreshes : RefreshCharactersSet(k)

SpecRefresh == Init /\ [][NextRefresh]_vars

\* No run of refreshCharacters is in flight.
RefreshesCompleted ==
  /\ refreshCalls.started > 0
  /\ \A k \in 1..MaxRefreshes : refreshCalls.runs[k].pc # "query"

\* C26: when the overlapping runs of refreshCharacters have all completed, in
\* whatever order their queries resolved, the cached list is the result for
\* the filter that is current then.
C26_ListForCurrentFilter ==
  RefreshesCompleted => store.characters = StoredForFilter(tables, store.filter)

\* The list is the result for the current filter when the runs set it in the
\* order they began in.
C26_FreshWhenResolvedInOrder ==
  (RefreshesCompleted /\ refreshCalls.inOrder) =>
    store.characters = StoredForFilter(tables, store.filter)

\* The search was set to "a" and then cleared; the second run resolved first,
\* the first one last: the filter has no search text and the list holds the
\* result of the search for "a" only.
C26_ListOfEarlierFilter ==
  /\ RefreshesCompleted
  /\ refreshCalls.started = 2
  /\ refreshCalls.runs[1].search = <<"a">>
  /\ store.filter.search = <<>>
  /\ Len(store.characters[2]) = 1
  /\ Len(getAllCharacters(tables, FALSE)[2]) = 2

----------------------------------------------------------------------------
(* The character modal: local edits, the debounced auto-save, close and     *)
(* switch.                                                                  *)

\* The delay of the auto-save timeout, 500 ms, in steps of 250 ms.
Debounce == 2

\* { ...prev, [field]: value }
WithField(prev, field, value) ==
  [k \in DOMAIN prev \cup {field} |-> IF k = field THEN value ELSE prev[k]]

\* The first effect, on a new selectedCharacter: a character other than the
\* one of lastCharacterIdRef resets the local data and the pending changes.
SelectionEffect(m, selectedCharacter) ==
  IF /\ selectedCharacter # Null
     /\ Num(selectedCharacter[2].character.id) # m.lastCharacterId
  THEN [m EXCEPT !.localData = selectedCharacter[2].character,
                 !.pendingChanges = <<>>,
                 !.lastCharacterId = Num(selectedCharacter[2].character.id)]
  ELSE m

\* The auto-save effect, on new pendingChanges or a new selectedCharacter: its
\* cleanup clears the timeout, and a new one is set for the character and the
\* changes of this render unless there is no change or no character.
AutoSaveEffect(m, selectedCharacter) ==
  [m EXCEPT !.timer =
     IF DOMAIN m.pendingChanges = {} \/ selectedCharacter = Null THEN {}
     ELSE {[id |-> selectedCharacter[2].character.id,
            patch |-> m.pendingChanges,
            remaining |-> Debounce]}]

\* The component is unmounted: its state is gone and the cleanup of the
\* auto-save effect clears the timeout.
Unmount(m) ==
  [m EXCEPT !.mounted = FALSE, !.localData = <<>>, !.pendingChanges = <<>>,
            !.lastCharacterId = Null, !.timer = {}]

\* The component after the store became s. selectionSet: selectedCharacter was
\* set to a new object. The state the first effect sets is rendered, and the
\* auto-save effect run again on it, before any timeout can fire.
ModalRender(m, s, selectionSet) ==
  IF ~s.isCharacterModalOpen THEN (IF m.mounted THEN Unmount(m) ELSE m)
  ELSE IF ~m.mounted
  THEN AutoSaveEffect(SelectionEffect([m EXCEPT !.mounted = TRUE, !.opens = @ + 1],
                                      s.selectedCharacter),
                      s.selectedCharacter)
  ELSE IF selectionSet
  THEN AutoSaveEffect(SelectionEffect(m, s.selectedCharacter), s.selectedCharacter)
  ELSE m

\* The user selects character id: on a card, or with the modal open.
ModalSelect(id) ==
  /\ modal.opens < MaxOpens
  /\ id \in DOMAIN tables.characters
  /\ ~IsSelected(store, id)
  /\ store' = selectCharacter(tables, store, id)
  /\ modal' = [ModalRender(modal, store', TRUE) EXCEPT
                 !.closed = FALSE, !.closedInSelect = FALSE]
  /\ call' = [op |-> "useStore.selectCharacter", args |-> <<id>>, ret |-> Undefined]
  /\ pre' = tables
  /\ UNCHANGED <<tables, now, connection, toggleCalls, refreshCalls>>

\* handleChange(field, value) on the character the modal shows. A timeout
\* that is due runs before the next event.
HandleChange(field, value) ==
  /\ modal.mounted
  /\ store.selectedCharacter # Null
  /\ \A t \in modal.timer : t.remaining > 0
  /\ LET id == store.selectedCharacter[2].character.id
         newBurst == modal.edits = 0 \/ modal.sinceEdit >= Debounce
         changed ==
           [modal EXCEPT
              !.localData = WithField(@, field, value),
              !.pendingChanges = WithField(@, field, value),
              !.edits = @ + 1,
              !.sinceEdit = 0,
              !.edited = {e \in @ : e[1] # id \/ e[2] # field} \cup {<<id, field, value>>},
              !.everEdited = @ \cup {<<id, field, value>>},
              !.burst = {b \in (IF newBurst THEN {} ELSE @) : b[1] # field}
                          \cup {<<field, value>>},
              !.burstQuiet = (newBurst \/ @) /\ modal.saves = <<>>,
              !.burstCalls = IF newBurst THEN <<>> ELSE @,
              !.overlapped = @ \/ modal.saves # <<>>]
     IN modal' = AutoSaveEffect(changed, store.selectedCharacter)
  /\ call' = [op |-> "handleChange", args |-> <<field, value>>, ret |-> Undefined]
  /\ pre' = tables
  /\ UNCHANGED <<tables, now, connection, store, toggleCalls, refreshCalls>>

\* 250 ms pass; not past the moment a timeout is due.
ModalTick ==
  /\ modal.edits > 0
  /\ \A t \in modal.timer : t.remaining > 0
  /\ modal.timer = {} => modal.sinceEdit < Debounce
  /\ modal' = [modal EXCEPT
                 !.sinceEdit = IF @ < Debounce THEN @ + 1 ELSE @,
                 !.timer = {[t EXCEPT !.remaining = @ - 1] : t \in @}]
  /\ call' = [op |-> "none", args |-> <<>>, ret |-> Undefined]
  /\ pre' = tables
  /\ UNCHANGED <<tables, now, connection, store, toggleCalls, refreshCalls>>

\* The timeout fires: its callback calls updateCharacter of the store with
\* the character and the changes of the render that set it, and awaits it.
TimerFires ==
  /\ \E t \in modal.timer :
       /\ t.remaining = 0
       /\ \E issued \in {[id |-> t.id, patch |-> t.patch, sinceEdit |-> modal.sinceEdit]} :
            modal' = [modal EXCEPT
                        !.timer = {},
                        !.saves = Append(@, [pc |-> "update", id |-> t.id,
                                             patch |-> t.patch, instance |-> modal.opens]),
                        !.calls = Append(@, issued),
                        !.burstCalls = Append(@, issued)]
       /\ call' = [op |-> "useStore.updateCharacter", args |-> <<t.id, t.patch>>,
                   ret |-> Undefined]
  /\ pre' = tables
  /\ UNCHANGED <<tables, now, connection, store, toggleCalls, refreshCalls>>

\* The sequence without its i-th item.
RemoveAt(seq, i) == SubSeq(seq, 1, i - 1) \o SubSeq(seq, i + 1, Len(seq))

\* updateCharacter of the store has resolved for save i and its callback goes
\* on: setPendingChanges({}), which only the instance that set the timeout
\* still hears, and the render and the effect that follow.
SaveFinished(m, i, selectedCharacter) ==
  LET left == [m EXCEPT !.saves = RemoveAt(@, i)]
  IN IF m.mounted /\ m.saves[i].instance = m.opens
     THEN AutoSaveEffect([left EXCEPT !.pendingChanges = <<>>], selectedCharacter)
     ELSE left

\* await db.updateCharacter(id, character) of save i resolves.
SaveUpdated(i) ==
  /\ i \in DOMAIN modal.saves
  /\ modal.saves[i].pc = "update"
  /\ \E done \in {updateCharacter(tables, modal.saves[i].id, modal.saves[i].patch, now)} :
       /\ tables' = done.tables
       /\ call' = [op |-> "updateCharacter",
                   args |-> <<modal.saves[i].id, modal.saves[i].patch>>, ret |-> done.ret]
  /\ modal' = [modal EXCEPT !.saves[i].pc = "refresh"]
  /\ pre' = tables
  /\ UNCHANGED <<now, connection, store, toggleCalls, refreshCalls>>

\* await get().refreshCharacters() of save i resolves; then the store looks
\* at selectedCharacter and either calls selectCharacter(id) or returns.
SaveRefreshed(i) ==
  /\ i \in DOMAIN modal.saves
  /\ modal.saves[i].pc = "refresh"
  /\ store' = refreshCharacters(tables, store)
  /\ modal' = IF IsSelected(store, modal.saves[i].id)
              THEN [modal EXCEPT !.saves[i].pc = "select"]
              ELSE SaveFinished(modal, i, store.selectedCharacter)
  /\ call' = [op |-> "refreshCharacters", args |-> <<i>>, ret |-> Undefined]
  /\ pre' = tables
  /\ UNCHANGED <<tables, now, connection, toggleCalls, refreshCalls>>

\* await db.getCharacterById(id) inside selectCharacter(id) of save i
\* resolves: the set(...) of selectCharacter, and the save returns.
SaveSelected(i) ==
  /\ i \in DOMAIN modal.saves
  /\ modal.saves[i].pc = "select"
  /\ store' = selectCharacter(tables, store, modal.saves[i].id)
  /\ modal' = SaveFinished(ModalRender(modal, store', store' # store), i,
                           store'.selectedCharacter)
  /\ call' = [op |-> "selectCharacter", args |-> <<modal.saves[i].id>>, ret |-> Undefined]
  /\ pre' = tables
  /\ UNCHANGED <<tables, now, connection, toggleCalls, refreshCalls>>

\* handleClose: lastCharacterIdRef.current = null; setCharacterModalOpen(false).
HandleClose ==
  /\ modal.mounted
  /\ store' = selectCharacterNull(store)
  /\ modal' = [ModalRender([modal EXCEPT !.lastCharacterId = Null], store', TRUE) EXCEPT
                 !.closed = TRUE,
                 !.closedInSelect = \E i \in DOMAIN modal.saves : modal.saves[i].pc = "select"]
  /\ call' = [op |-> "handleClose", args |-> <<>>, ret |-> Undefined]
  /\ pre' = tables
  /\ UNCHANGED <<tables, now, connection, toggleCalls, refreshCalls>>

\* The fields and the values typed into them.
ModalChanges == {<<"name", Str(<<"b">>)>>, <<"role", Str(<<"x">>)>>, <<"role", Str(<<"y">>)>>}

\* The user types, up to `edits` times, and the auto-save does its work.
AutoSaveSteps(changes, edits) ==
  \/ /\ modal.edits < edits
     /\ \E c \in changes : HandleChange(c[1], c[2])
  \/ ModalTick
  \/ TimerFires
  \/ \E i \in 1..MaxEdits : SaveUpdated(i)
  \/ \E i \in 1..MaxEdits : SaveRefreshed(i)
  \/ \E i \in 1..MaxEdits : SaveSelected(i)

\* One character, opened once in the modal and edited there.
NextAutoSave ==
  \/ /\ tables.sqlite_sequence.characters = 0
     /\ StoreCreateCharacter([name |-> Str(<<"a">>)])
  \/ /\ modal.opens = 0
     /\ ModalSelect(1)
  \/ AutoSaveSteps(ModalChanges, MaxEdits)

SpecAutoSave == Init /\ [][NextAutoSave]_vars

\* The modal is open and nothing is left to happen: no timeout is set and no
\* save is in flight.
EditingStopped == modal.mounted /\ modal.timer = {} /\ modal.saves = <<>>

\* Every field holds in storage the value the modal shows, and the last value
\* given to a field was in an updateCharacter call for the character.
EditsSaved ==
  /\ \A e \in modal.edited :
       \E n \in DOMAIN modal.calls :
         /\ modal.calls[n].id = e[1]
         /\ e[2] \in DOMAIN modal.calls[n].patch
         /\ modal.calls[n].patch[e[2]] = e[3]
  /\ \A field \in {"name", "role"} :
       tables.characters[modal.localData.id][field] = modal.localData[field]

\* C21: with the modal open on one character and storage calls succeeding,
\* every change made through handleChange, one made while an earlier save is
\* in flight included, gets into an updateCharacter call for the character, so
\* that once editing has stopped the stored character equals the values the
\* modal shows.
C21_NoEditLost == EditingStopped => EditsSaved

\* No edit is lost when none is made while a save is in flight.
C21_SavedWhenNoSaveInFlight == (EditingStopped /\ ~modal.overlapped) => EditsSaved

\* role was set to "x" and saved; name was set to "b" while that save was in
\* flight; the save returned and cleared the pending changes. The modal shows
\* the name "b", no timeout is set, no save is in flight, one call was made,
\* and the stored name is still "a".
C21_EditLostInFlight ==
  /\ EditingStopped
  /\ modal.localData.name = Str(<<"b">>)
  /\ modal.localData.role = Str(<<"x">>)
  /\ tables.characters[1].name = Str(<<"a">>)
  /\ tables.characters[1].role = Str(<<"x">>)
  /\ Len(modal.calls) = 1
  /\ DOMAIN modal.pendingChanges = {}

\* 500 ms have passed since the last edit and no timeout is left.
BurstOver == modal.edits > 0 /\ modal.sinceEdit = Debounce /\ modal.timer = {}

\* Since the burst began one updateCharacter call was issued, 500 ms after the
\* last edit, and its patch holds the fields edited in the burst with their
\* last values and nothing else.
OneCallForBurst ==
  /\ Len(modal.burstCalls) = 1
  /\ modal.burstCalls[1].sinceEdit = Debounce
  /\ DOMAIN modal.burstCalls[1].patch = {b[1] : b \in modal.burst}
  /\ \A b \in modal.burst : modal.burstCalls[1].patch[b[1]] = b[2]

\* C23: a burst of handleChange edits on one character, each less than 500 ms
\* after the one before, produces exactly one updateCharacter call, issued
\* 500 ms after the last edit, whose patch holds exactly the fields edited in
\* the burst with their latest values.
C23_OneCallPerBurst == BurstOver => OneCallForBurst

\* It does so when no save is in flight while the burst is made.
C23_OneCallPerQuietBurst == (BurstOver /\ modal.burstQuiet) => OneCallForBurst

\* role was edited twice within 500 ms while the save of an earlier edit was
\* in flight; that save returned and cleared the timeout of the burst: 500 ms
\* after the last edit no call has been issued for it and none will be.
C23_BurstWithoutCall ==
  /\ BurstOver
  /\ modal.saves = <<>>
  /\ modal.burst = {<<"role", Str(<<"y">>)>>}
  /\ modal.edits = 3
  /\ modal.burstCalls = <<>>
  /\ Len(modal.calls) = 1

----------------------------------------------------------------------------
(* The modal closed, and switched to another character.                     *)

\* Two characters; the user opens either in the modal, edits, closes, and
\* selects the other one while the modal is open.
NextModal ==
  \/ /\ tables.sqlite_sequence.characters = 0
     /\ StoreCreateCharacter([name |-> Str(<<"a">>)])
  \/ /\ tables.sqlite_sequence.characters = 1
     /\ StoreCreateCharacter([name |-> Str(<<"c">>)])
  \/ /\ tables.sqlite_sequence.characters = 2
     /\ \E id \in {1, 2} : ModalSelect(id)
  \/ HandleClose
  \/ AutoSaveSteps({<<"role", Str(<<"x">>)>>}, MaxSwitchEdits)

SpecModal == Init /\ [][NextModal]_vars

\* No timeout is set and no save is in flight: nothing more will be written.
NothingPending == modal.timer = {} /\ modal.saves = <<>>

\* The last value given to each field of each character is the stored one.
EditsStored == \A e \in modal.edited : tables.characters[e[1]][e[2]] = e[3]

\* Every field of every updateCharacter call was given that value in the
\* modal while it showed the character of the call.
WrittenWhereEdited ==
  \A n \in DOMAIN modal.calls : \A field \in DOMAIN modal.calls[n].patch :
    <<modal.calls[n].id, field, modal.calls[n].patch[field]>> \in modal.everEdited

\* C22: changes that are pending when the modal is closed or the selection
\* switches to another character are still written to storage, for the
\* character they were made on, and never to another character. (Edits made
\* while a save is in flight are left aside here.)
C22_PendingWrittenOnCloseOrSwitch ==
  /\ (NothingPending /\ ~modal.overlapped) => EditsStored
  /\ WrittenWhereEdited

\* No change is written to a character other than the one it was made on.
C22_NeverWrittenToAnother == WrittenWhereEdited

\* The role of character 1 was set to "x" and the modal closed before the
\* timeout was due: the timeout is cleared, no call was made, the role is not
\* stored.
C22_PendingDiscardedOnClose ==
  /\ modal.closed
  /\ NothingPending
  /\ modal.edited = {<<1, "role", Str(<<"x">>)>>}
  /\ modal.calls = <<>>
  /\ tables.characters[1].role = Null

\* The same with the selection switched to character 2 instead.
C22_PendingDiscardedOnSwitch ==
  /\ ~modal.closed
  /\ IsSelected(store, 2)
  /\ modal.opens = 1
  /\ NothingPending
  /\ modal.edited = {<<1, "role", Str(<<"x">>)>>}
  /\ modal.calls = <<>>
  /\ tables.characters[1].role = Null

\* C27: once the modal has been closed with setCharacterModalOpen(false),
\* selectedCharacter stays null and isCharacterModalOpen stays false until the
\* user's next selectCharacter, even with an updateCharacter of the store for
\* the character in flight at the moment of closing.
C27_StaysClosed ==
  modal.closed => store.selectedCharacter = Null /\ ~store.isCharacterModalOpen

\* It stays closed unless the save in flight had reached its selectCharacter.
C27_StaysClosedUnlessSelecting ==
  (modal.closed /\ ~modal.closedInSelect) =>
    store.selectedCharacter = Null /\ ~store.isCharacterModalOpen

\* The modal was closed while an auto-save awaited getCharacterById inside
\* selectCharacter; the set(...) that followed opened it again on character 1.
C27_ReopenedBySave ==
  /\ modal.closed
  /\ modal.closedInSelect
  /\ call.op = "selectCharacter"
  /\ store.isCharacterModalOpen
  /\ IsSelected(store, 1)
  /\ modal.mounted
  /\ modal.opens = 2

====
